---- MODULE Spec2Model ----
(***************************************************************************)
(* A model of the scripture matching core of SmartVerses:                  *)
(*   - the per-translation full-text index and its single-flight build     *)
(*     (src/src/services/bibleTextSearchService.ts),                       *)
(*   - the verse loader it builds from (src/src/services/bibleService.ts), *)
(*   - the translation library and its alias resolution                    *)
(*     (src/src/services/bibleLibraryService.ts),                          *)
(*   - the offline paraphrase scoring                                      *)
(*     (src/src/services/smartVersesOfflineParaphraseService.ts),          *)
(*   - the API lookup (src/src/services/smartVersesApiService.ts).         *)
(* Each component has its own specification over the shared variables; a   *)
(* specification keeps the variables of the other components fixed.        *)
(***************************************************************************)
EXTENDS Integers, Sequences, FiniteSets, TLC

VARIABLES
    \* ---- full-text index (bibleTextSearchService.ts) ----
    searchIndexMap,          \* translation id -> index object (NoIndex = absent)
    verseMapByTranslation,   \* translation id -> verse map object (NoIndex = absent)
    indexedTranslations,     \* set of translation ids
    indexPromises,           \* translation id -> promise (0 = absent)
    build,                   \* promise/build number -> the build coroutine
    nextBuild,               \* the next unused build number
    caller,                  \* caller -> the state of its pending call
    resetCalled,             \* resetSearchIndexes has been called
    \* ---- verse loader (bibleService.ts) and the library it reads ----
    versesCache,             \* translation id -> id whose verses are cached ("none" = absent)
    installed,               \* ids of the translations of the library state
    \* ---- translation library (bibleLibraryService.ts) ----
    libraryState,            \* the published state object (0 = null)
    libraryPromise,          \* the promise of the latest build (0 = null)
    libBuild,                \* build number -> the buildLibraryState coroutine
    libHeap,                 \* build number -> the state object the build returned
    nextLibBuild,            \* the next unused build number
    reader,                  \* reader -> the state of its pending library call
    userDir,                 \* names of the files in the user Bible directory
    builtinOk,               \* the built-in KJV can be fetched
    cue,                     \* the last findTranslationCue call: its text and result
    \* ---- API lookup (smartVersesApiService.ts) ----
    api,                     \* the goLiveScriptureReference call in progress
    apiAutoClearTimeout,     \* the pending auto-clear timer (FALSE = null)
    apiOutput,               \* the reference shown in the output files ("" = cleared)
    \* ---- offline paraphrase scoring (smartVersesOfflineParaphraseService.ts) ----
    an,                      \* the analyzeTranscriptChunkOffline call in progress
    embedder,                \* embedder / embedderPromise: "unloaded", "loading", "loaded", "failed"
    verseTokenCache,         \* reference -> token data (NoTokenData = absent)
    verseEmbeddingCache,     \* reference -> embedding (<<>> = absent)
    \* ---- concurrent analyzeTranscriptChunkOffline calls ----
    calls,                   \* call -> the state of that call
    embedderLoads,           \* how many times the load of lines 237-253 was started
    embeddingInFlight,       \* reference -> its pending getVerseEmbedding promise (0 = absent)
    embedding,               \* promise number -> the getVerseEmbedding computation
    extractor,               \* the feature extractor: "works", "throws" or "flaky"
    \* ---- transcription overlap (transcriptionOverlap.ts) ----
    ov,                      \* the extractNewTranscriptionText call: its texts and result
    \* ---- reference lookup (bibleService.ts) ----
    gv,                      \* the getVersesForReference call: its reference and result
    \* ---- pure steps of the paraphrase service ----
    tw,                      \* the buildTextWindows call: its text and result
    cc,                      \* the collectCandidates call: its queries and candidates
    \* ---- overlapping go-lives (smartVersesApiService.ts) ----
    gl                       \* the goLiveReference calls, their timers, the handle and the output

idxVars == <<searchIndexMap, verseMapByTranslation, indexedTranslations,
             indexPromises, build, nextBuild, caller, resetCalled,
             versesCache, installed>>

libVars == <<libraryState, libraryPromise, libBuild, libHeap, nextLibBuild,
             reader, userDir, builtinOk>>

apiVars == <<api, apiAutoClearTimeout, apiOutput>>

scoreVars == <<an, embedder, verseTokenCache, verseEmbeddingCache>>

concVars == <<calls, embedderLoads, embeddingInFlight, embedding, extractor>>

vars == <<idxVars, libVars, cue, apiVars, scoreVars, concVars, ov, gv, tw, cc, gl>>


-----------------------------------------------------------------------------
(* Bounds of the model.                                                    *)

NumCallers == 2
MaxBuilds == 2
NumReaders == 1
MaxLibBuilds == 2
MaxCueWords == 3
MaxRefs == 2
MaxSentences == 2
MaxCandidates == 2
NumCalls == 3
MaxEmbeddings == 3
MaxOverlapWords == 3
MaxVerse == 18
LongSentence == 94
MaxFound == 40
MidSentence == 30

-----------------------------------------------------------------------------
(* The state of the translation library after the module is loaded.        *)

NoState == [by |-> 0]

UnusedLibBuild == [pc |-> "unused", builtin |-> FALSE]

IdleReader == [pc |-> "idle", awaiting |-> 0, ref |-> 0, outcome |-> "none"]

\* libraryState and libraryPromise lines 28-29, nothing loaded, no file present
LibIdle ==
    /\ libraryState = 0
    /\ libraryPromise = 0
    /\ libBuild = [b \in (1..MaxLibBuilds) |-> UnusedLibBuild]
    /\ libHeap = [b \in (1..MaxLibBuilds) |-> NoState]
    /\ nextLibBuild = 1
    /\ reader = [r \in (1..NumReaders) |-> IdleReader]
    /\ userDir = {}
    /\ builtinOk = TRUE

\* no findTranslationCue call
NoCue == [text |-> <<>>, called |-> FALSE, id |-> <<>>, alias |-> <<>>]

CueIdle == cue = NoCue

\* no goLiveScriptureReference call; direct and refs hold lists of references
IdleApi ==
    [pc |-> "idle", clear |-> FALSE, directReturned |-> FALSE, direct |-> <<>>,
     searchCalls |-> 0, refs |-> <<>>, result |-> "none"]

\* apiAutoClearTimeout line 13, and output files not written yet
ApiIdle ==
    /\ api = IdleApi
    /\ apiAutoClearTimeout = FALSE
    /\ apiOutput = ""

\* the references of the verses of the model's corpus
VerseRefs == {"John 3:16", "1 Corinthians 13:13", "John 11:35", "John 8:58"}

\* an option the caller left out; numbers are fractions <<numerator, denominator>>
Unset == [set |-> FALSE, val |-> <<0, 1>>]

Given(v) == [set |-> TRUE, val |-> v]

\* no analyzeTranscriptChunkOffline call
IdleAnalysis ==
    [pc |-> "idle", transcript |-> <<>>,
     options |-> [minConfidence |-> Unset, maxResults |-> Unset, minWords |-> Unset,
                  useEmbeddings |-> "unset"],
     windows |-> <<>>, embeddingEnabled |-> FALSE, queries |-> <<>>, hits |-> <<>>,
     result |-> <<>>]

NoTokenData == [cached |-> FALSE, tokens |-> <<>>, bigrams |-> <<>>]

\* embedder, embedderPromise and the caches of lines 41-46, all empty
ScoreIdle ==
    /\ an = IdleAnalysis
    /\ embedder = "unloaded"
    /\ verseTokenCache = [r \in VerseRefs |-> NoTokenData]
    /\ verseEmbeddingCache = [r \in VerseRefs |-> <<>>]

\* a call slot no analyzeTranscriptChunkOffline call has used
IdleCall ==
    [pc |-> "idle", transcript |-> <<>>, options |-> IdleAnalysis.options,
     windows |-> <<>>, embeddingEnabled |-> FALSE, hits |-> <<>>, k |-> 0, wait |-> 0,
     verseEmbeddings |-> [r \in VerseRefs |-> <<>>], result |-> <<>>]

\* no call in progress, no load started, nothing in flight (lines 41-46)
ConcIdle ==
    /\ calls = [c \in 1..NumCalls |-> IdleCall]
    /\ embedderLoads = 0
    /\ embeddingInFlight = [r \in VerseRefs |-> 0]
    /\ embedding = [e \in 1..MaxEmbeddings |-> [state |-> "unused", ref |-> "", value |-> <<>>]]
    /\ extractor = "works"

\* extractNewTranscriptionText not called
OvIdle == ov = [last |-> <<>>, new |-> <<>>, called |-> FALSE, out |-> <<>>]

\* buildTextWindows not called
TwIdle == tw = [pc |-> "idle", text |-> <<>>, windows |-> <<>>]

\* collectCandidates not called
CcIdle ==
    cc = [pc |-> "idle", limit |-> 0, queries |-> <<>>, next |-> 1, candidates |-> <<>>,
          issued |-> <<>>]

\* how many goLiveReference calls may overlap
NumLive == 3

\* no goLiveReference call made: apiAutoClearTimeout null (handle 0), no timer
\* set, the output files never written (output 0)
GlIdle ==
    gl = [calls |-> [c \in 1..NumLive |-> [pc |-> "idle", clear |-> FALSE]],
          timers |-> [t \in 1..NumLive |-> "unset"],
          handle |-> 0,
          output |-> 0]

\* a reference in numbers: book, chapter, verse and the end of the range
\* (hasEnd FALSE: a single verse)
NoReference ==
    [book |-> "John", chapter |-> 0, verse |-> 0, hasEnd |-> FALSE,
     endBook |-> "John", endChapter |-> 0, endVerse |-> 0]

\* getVersesForReference not called
GvIdle ==
    gv = [pc |-> "idle", input |-> NoReference, osis |-> <<>>, translationId |-> "kjv",
          used |-> "none", result |-> <<>>]

-----------------------------------------------------------------------------
(* Full-text index: initializeIndex, searchBibleText, preloadSearchIndex,  *)
(* resetSearchIndexes; loadVerses.                                         *)

BUILTIN_KJV_ID == "kjv"

TranslationIds == {"kjv", "niv"}

CallKinds == {"search", "preload", "analyze"}

\* an absent index or verse map; otherwise the build that made it and the id of
\* the translation whose verses it holds
NoIndex == [build |-> 0, verses |-> "none"]

IdleCaller ==
    [pc |-> "idle", kind |-> "none", id |-> "none", awaiting |-> 0,
     outcome |-> "none", result |-> "none", sawFail |-> FALSE]

UnusedBuild == [pc |-> "unused", id |-> "none", stale |-> FALSE]

IdxInit ==
    /\ searchIndexMap = [t \in TranslationIds |-> NoIndex]
    /\ verseMapByTranslation = [t \in TranslationIds |-> NoIndex]
    /\ indexedTranslations = {}
    /\ indexPromises = [t \in TranslationIds |-> 0]
    /\ build = [b \in (1..MaxBuilds) |-> UnusedBuild]
    /\ nextBuild = 1
    /\ caller = [c \in (1..NumCallers) |-> IdleCaller]
    /\ resetCalled = FALSE
    /\ versesCache = [t \in TranslationIds |-> "none"]
    /\ installed \in SUBSET TranslationIds

\* the index state after the module is loaded, the built-in KJV installed
IdxIdle ==
    /\ searchIndexMap = [t \in TranslationIds |-> NoIndex]
    /\ verseMapByTranslation = [t \in TranslationIds |-> NoIndex]
    /\ indexedTranslations = {}
    /\ indexPromises = [t \in TranslationIds |-> 0]
    /\ build = [b \in (1..MaxBuilds) |-> UnusedBuild]
    /\ nextBuild = 1
    /\ caller = [c \in (1..NumCallers) |-> IdleCaller]
    /\ resetCalled = FALSE
    /\ versesCache = [t \in TranslationIds |-> "none"]
    /\ installed = {BUILTIN_KJV_ID}

\* the index component alone: the other components stay as constructed
InitIndex == IdxInit /\ LibIdle /\ CueIdle /\ ApiIdle /\ ScoreIdle /\ ConcIdle /\ OvIdle /\ GvIdle /\ TwIdle /\ CcIdle /\ GlIdle

\* a mutant of HasIndexPromise: the in-flight build is not looked up
HasIndexPromise_Never(id) == FALSE

\* initializeIndex line 50: a build for this id is in flight (or has succeeded)
HasIndexPromise(id) == indexPromises[id] # 0

\* initializeIndex lines 48-55 and 109-110, from the call up to its first await.
\* rec is the caller's record with the call's parameters filled in.
InitializeIndexEntry(c, rec) ==
    IF rec.id \in indexedTranslations
    THEN /\ caller' = [caller EXCEPT ![c] = [rec EXCEPT !.pc = "inited"]]
         /\ UNCHANGED <<build, nextBuild, indexPromises>>
    ELSE IF HasIndexPromise(rec.id)
    THEN /\ caller' = [caller EXCEPT ![c] =
                [rec EXCEPT !.pc = "await", !.awaiting = indexPromises[rec.id]]]
         /\ UNCHANGED <<build, nextBuild, indexPromises>>
    ELSE /\ nextBuild <= MaxBuilds
         /\ build' = [build EXCEPT ![nextBuild] =
                [pc |-> "loading", id |-> rec.id, stale |-> FALSE]]
         /\ indexPromises' = [indexPromises EXCEPT ![rec.id] = nextBuild]
         /\ nextBuild' = nextBuild + 1
         /\ caller' = [caller EXCEPT ![c] =
                [rec EXCEPT !.pc = "await", !.awaiting = nextBuild]]

\* searchBibleText(query, limit, translationId) / preloadSearchIndex(id) /
\* analyzeTranscriptChunkOffline reaching its first searchBibleText call
\* (collectCandidates line 323), which passes an options object as the third
\* argument and so always searches the built-in KJV (lines 127-130).
\* A caller whose previous call has settled may call again.
CallStart(c, kind, id) ==
    /\ caller[c].pc \in {"idle", "done"}
    /\ kind = "analyze" => id = BUILTIN_KJV_ID
    /\ InitializeIndexEntry(c, [IdleCaller EXCEPT !.kind = kind, !.id = id])
    /\ UNCHANGED <<searchIndexMap, verseMapByTranslation, indexedTranslations,
                   resetCalled, versesCache, installed>>

\* loadVerses lines 136-159: the id of the translation whose verses the call
\* yields ("none": it throws)
LoadVersesResult(id) ==
    IF versesCache[id] # "none" THEN versesCache[id]
    ELSE IF id \in installed THEN id
    ELSE IF BUILTIN_KJV_ID \in installed THEN BUILTIN_KJV_ID
    ELSE "none"

\* loadVerses lines 155-157: the cache after the call
LoadVersesCache(id) ==
    LET v == LoadVersesResult(id) IN
    IF versesCache[id] # "none" \/ v = "none" THEN versesCache
    ELSE [t \in TranslationIds |-> IF t = id \/ t = v THEN v ELSE versesCache[t]]

\* initializeIndex lines 61-106: the build coroutine after loadVerses settles.
\* throws: building the FlexSearch document throws.
BuildSettle(b, throws) ==
    /\ build[b].pc = "loading"
    /\ LET id == build[b].id
           v == LoadVersesResult(id)
       IN /\ versesCache' = LoadVersesCache(id)
          /\ IF v # "none" /\ ~throws
             THEN /\ searchIndexMap' = [searchIndexMap EXCEPT ![id] =
                         [build |-> b, verses |-> v]]
                  /\ verseMapByTranslation' = [verseMapByTranslation EXCEPT ![id] =
                         [build |-> b, verses |-> v]]
                  /\ indexedTranslations' = indexedTranslations \cup {id}
                  /\ build' = [build EXCEPT ![b].pc = "ok"]
                  /\ UNCHANGED indexPromises
             ELSE /\ indexPromises' = [indexPromises EXCEPT ![id] = 0]
                  /\ build' = [build EXCEPT ![b].pc = "failed"]
                  /\ UNCHANGED <<searchIndexMap, verseMapByTranslation,
                                 indexedTranslations>>
    /\ UNCHANGED <<nextBuild, caller, resetCalled, installed>>

\* initializeIndex lines 51 and 110: the awaited build has settled. A rejection
\* propagates through searchBibleText line 135 (outside its try block),
\* preloadSearchIndex line 214 and collectCandidates line 323.
CallerResume(c) ==
    /\ caller[c].pc = "await"
    /\ build[caller[c].awaiting].pc \in {"ok", "failed"}
    /\ caller' = [caller EXCEPT ![c] =
          IF build[caller[c].awaiting].pc = "ok"
          THEN [@ EXCEPT !.pc = "inited", !.awaiting = 0]
          ELSE [@ EXCEPT !.pc = "done", !.awaiting = 0, !.outcome = "rejected",
                         !.sawFail = TRUE]]
    /\ UNCHANGED <<searchIndexMap, verseMapByTranslation, indexedTranslations,
                   indexPromises, build, nextBuild, resetCalled,
                   versesCache, installed>>

\* searchBibleText lines 137-171 (hits: the index search finds something and does
\* not throw), then the caller's continuation: preloadSearchIndex returns,
\* searchBibleText returns, collectCandidates lines 321-330 issues its next
\* query (more) or returns.
CallerSearch(c, hits, more) ==
    /\ caller[c].pc = "inited"
    /\ more => caller[c].kind = "analyze"
    /\ LET r == caller[c]
           absent == \/ searchIndexMap[r.id] = NoIndex
                     \/ verseMapByTranslation[r.id] = NoIndex
           res == IF r.kind = "preload" THEN "none"
                  ELSE IF absent THEN "empty"
                  ELSE IF hits THEN "hits" ELSE "empty"
       IN IF more
          THEN InitializeIndexEntry(c, r)
          ELSE /\ caller' = [caller EXCEPT ![c] =
                     [r EXCEPT !.pc = "done", !.outcome = "resolved", !.result = res]]
               /\ UNCHANGED <<build, nextBuild, indexPromises>>
    /\ UNCHANGED <<searchIndexMap, verseMapByTranslation, indexedTranslations,
                   resetCalled, versesCache, installed>>

\* resetSearchIndexes lines 217-222; the builds in flight become stale
ResetSearchIndexes ==
    /\ resetCalled' = TRUE
    /\ searchIndexMap' = [t \in TranslationIds |-> NoIndex]
    /\ verseMapByTranslation' = [t \in TranslationIds |-> NoIndex]
    /\ indexedTranslations' = {}
    /\ indexPromises' = [t \in TranslationIds |-> 0]
    /\ build' = [b \in (1..MaxBuilds) |->
          IF build[b].pc = "loading" THEN [build[b] EXCEPT !.stale = TRUE] ELSE build[b]]
    /\ UNCHANGED <<nextBuild, caller, versesCache, installed>>

IdxNext ==
    \/ \E c \in (1..NumCallers), kind \in CallKinds, id \in TranslationIds :
          CallStart(c, kind, id) /\ UNCHANGED <<libVars, cue, apiVars, scoreVars, concVars, ov, gv, tw, cc, gl>>
    \/ \E b \in (1..MaxBuilds), throws \in BOOLEAN : BuildSettle(b, throws) /\ UNCHANGED <<libVars, cue, apiVars, scoreVars, concVars, ov, gv, tw, cc, gl>>
    \/ \E c \in (1..NumCallers) : CallerResume(c) /\ UNCHANGED <<libVars, cue, apiVars, scoreVars, concVars, ov, gv, tw, cc, gl>>
    \/ \E c \in (1..NumCallers), hits \in BOOLEAN, more \in BOOLEAN :
          CallerSearch(c, hits, more) /\ UNCHANGED <<libVars, cue, apiVars, scoreVars, concVars, ov, gv, tw, cc, gl>>

\* the index component as long as resetSearchIndexes is not called
SpecIndex == InitIndex /\ [][IdxNext]_vars

\* the index component with resetSearchIndexes
IdxResetNext == IdxNext \/ (ResetSearchIndexes /\ UNCHANGED <<libVars, cue, apiVars, scoreVars, concVars, ov, gv, tw, cc, gl>>)

SpecIndexReset == InitIndex /\ [][IdxResetNext]_vars

\* refreshBibleLibrary lines 316-323 has resolved: the library state now
\* holds the translations ids (the built-in KJV and the user files found);
\* nothing of bibleService.ts or bibleTextSearchService.ts is called
RefreshBibleLibrary(ids) ==
    /\ BUILTIN_KJV_ID \in ids
    /\ installed' = ids
    /\ UNCHANGED <<searchIndexMap, verseMapByTranslation, indexedTranslations,
                   indexPromises, build, nextBuild, caller, resetCalled, versesCache>>

\* the index component with refreshBibleLibrary
IdxRefreshNext ==
    \/ IdxNext
    \/ \E ids \in SUBSET TranslationIds :
          RefreshBibleLibrary(ids) /\ UNCHANGED <<libVars, cue, apiVars, scoreVars, concVars, ov, gv, tw, cc, gl>>

SpecIndexRefresh == InitIndex /\ [][IdxRefreshNext]_vars

-----------------------------------------------------------------------------
(* Claims about the full-text index.                                       *)

LoadingBuilds(id) == {b \in (1..MaxBuilds) : build[b].pc = "loading" /\ build[b].id = id}

SucceededBuilds(id) == {b \in (1..MaxBuilds) : build[b].pc = "ok" /\ build[b].id = id}

FailedBuilds(id) == {b \in (1..MaxBuilds) : build[b].pc = "failed" /\ build[b].id = id}

StartedBuilds(id) == {b \in (1..MaxBuilds) : build[b].pc # "unused" /\ build[b].id = id}

\* C1: as long as resetSearchIndexes has not been called, for every translation
\* id at most one index build is in flight or has succeeded (every further
\* started build is a retry after a failed one), every caller waiting for the
\* index of that id awaits that one in-flight build, and once a build for the id
\* has succeeded none is in flight.
C1_SingleFlight ==
    ~resetCalled =>
        \A id \in TranslationIds :
            /\ Cardinality(LoadingBuilds(id)) + Cardinality(SucceededBuilds(id)) <= 1
            /\ Cardinality(StartedBuilds(id)) <= 1 + Cardinality(FailedBuilds(id))
            /\ \A c \in (1..NumCallers) :
                  caller[c].pc = "await" /\ caller[c].id = id
                      /\ build[caller[c].awaiting].pc = "loading"
                  => LoadingBuilds(id) = {caller[c].awaiting}
            /\ id \in indexedTranslations => LoadingBuilds(id) = {}

\* two callers await the same in-flight build of one translation
C1_Witness ==
    /\ ~resetCalled
    /\ \E c1, c2 \in (1..NumCallers) :
          /\ c1 # c2
          /\ caller[c1].pc = "await" /\ caller[c2].pc = "await"
          /\ caller[c1].id = caller[c2].id
          /\ caller[c1].awaiting = caller[c2].awaiting
          /\ build[caller[c1].awaiting].pc = "loading"

\* C2: a searchBibleText call whose index build failed resolves to an empty
\* result list; it never rejects.
C2_SearchFailOpen ==
    \A c \in (1..NumCallers) :
        caller[c].kind = "search" /\ caller[c].pc = "done" /\ caller[c].sawFail
        => caller[c].outcome = "resolved" /\ caller[c].result = "empty"

C29_RefreshedVersesUsed ==
    \A id \in installed :
        /\ LoadVersesResult(id) = id
        /\ searchIndexMap[id] # NoIndex => searchIndexMap[id].verses = id

\* C28: no index of a build that was started before a resetSearchIndexes
\* call is published afterwards: the index of a translation, and with it
\* isSearchIndexReady, comes from a build started after the last reset; and
\* at most one build per translation id is in flight, also across a reset.
C28_NoStaleIndexAfterReset ==
    \A id \in TranslationIds :
        /\ searchIndexMap[id] # NoIndex => ~build[searchIndexMap[id].build].stale
        /\ verseMapByTranslation[id] # NoIndex =>
               ~build[verseMapByTranslation[id].build].stale
        /\ id \in indexedTranslations => searchIndexMap[id] # NoIndex
        /\ Cardinality(LoadingBuilds(id)) <= 1

-----------------------------------------------------------------------------
(* Translation library (bibleLibraryService.ts). A string is a sequence of *)
(* one-character strings.                                                  *)

LowerCaseLetters == <<"a", "b", "c", "d", "e", "f", "g", "h", "i", "j", "k", "l", "m", "n", "o", "p", "q", "r", "s", "t", "u", "v", "w", "x", "y", "z">>

\* String.prototype.toLowerCase on one character
LowerChar(c) ==
    LET upper == <<"A", "B", "C", "D", "E", "F", "G", "H", "I", "J", "K", "L", "M", "N", "O", "P", "Q", "R", "S", "T", "U", "V", "W", "X", "Y", "Z">>
    IN IF \E i \in 1..Len(upper) : upper[i] = c
       THEN LowerCaseLetters[CHOOSE i \in 1..Len(upper) : upper[i] = c]
       ELSE c

ToLowerCase(s) == [i \in 1..Len(s) |-> LowerChar(s[i])]

\* String.prototype.trim
Trim(s) ==
    LET RECURSIVE TrimStart(_)
        TrimStart(t) == IF t # <<>> /\ t[1] = " " THEN TrimStart(Tail(t)) ELSE t
        RECURSIVE TrimEnd(_)
        TrimEnd(t) ==
            IF t # <<>> /\ t[Len(t)] = " " THEN TrimEnd(SubSeq(t, 1, Len(t) - 1)) ELSE t
    IN TrimEnd(TrimStart(s))

\* Array.join(" ")
RECURSIVE JoinSpace(_)
JoinSpace(words) ==
    IF words = <<>> THEN <<>>
    ELSE IF Len(words) = 1 THEN words[1]
    ELSE words[1] \o <<" ">> \o JoinSpace(Tail(words))

\* normalizeAlias lines 35-37
normalizeAlias(value) == ToLowerCase(Trim(value))

\* the regular expression class \w
IsWordChar(c) == c \notin {" ", ",", ".", ":"}

\* aliasToPattern lines 43-47: the pattern body; every run of white space of
\* the alias becomes one " ", which stands for \s+
RECURSIVE CollapseSpaces(_)
CollapseSpaces(s) ==
    IF s = <<>> THEN <<>>
    ELSE IF s[1] = " " /\ Len(s) > 1 /\ s[2] = " " THEN CollapseSpaces(Tail(s))
    ELSE <<s[1]>> \o CollapseSpaces(Tail(s))

aliasToPattern(alias) == CollapseSpaces(ToLowerCase(Trim(alias)))

\* the positions at which a match of pat that starts at text[j] can end
\* (case-insensitive, " " in pat matching one or more spaces)
RECURSIVE MatchEnds(_, _, _)
MatchEnds(pat, text, j) ==
    IF pat = <<>> THEN {j}
    ELSE IF j > Len(text) THEN {}
    ELSE IF Head(pat) = " "
    THEN IF text[j] = " "
         THEN MatchEnds(Tail(pat), text, j + 1) \cup MatchEnds(pat, text, j + 1)
         ELSE {}
    ELSE IF LowerChar(text[j]) = LowerChar(Head(pat))
    THEN MatchEnds(Tail(pat), text, j + 1)
    ELSE {}

\* the regular expression assertion \b between text[p-1] and text[p]
WordBoundary(text, p) ==
    LET before == p - 1 >= 1 /\ IsWordChar(text[p - 1])
        after == p <= Len(text) /\ IsWordChar(text[p])
    IN before # after

\* RegExp.prototype.test for the pattern \b<pat>\b with flag i
PatternTest(pat, text) ==
    \E j \in 1..(Len(text) + 1) :
        /\ WordBoundary(text, j)
        /\ \E k \in MatchEnds(pat, text, j) : WordBoundary(text, k)

\* the set of the elements of a sequence: new Set(array)
SetOf(seq) == {seq[i] : i \in 1..Len(seq)}

\* a mutant of StableSort: the sequence is left as it is
StableSort_Unsorted(seq, keeps) == seq

\* Array.prototype.sort (stable) with a comparator under which keeps[a, b]
\* says that b is not put before a
StableSort(seq, keeps) ==
    LET RECURSIVE Insert(_, _)
        Insert(sorted, e) ==
            IF sorted = <<>> THEN <<e>>
            ELSE IF keeps[Head(sorted), e]
            THEN <<Head(sorted)>> \o Insert(Tail(sorted), e)
            ELSE <<e>> \o sorted
        RECURSIVE Sort(_)
        Sort(t) ==
            IF t = <<>> THEN <<>>
            ELSE Insert(Sort(SubSeq(t, 1, Len(t) - 1)), t[Len(t)])
    IN Sort(seq)

\* BUILTIN_KJV_METADATA lines 10-17.  The value of an "aliases" member is an
\* array of values, absent (or null), or neither (a string, a number, an
\* object); an item of the array is a string or not.
BUILTIN_KJV_METADATA ==
    [id |-> <<"k", "j", "v">>, shortName |-> <<"K", "J", "V">>, fullName |-> <<"K", "i", "n", "g", " ", "J", "a", "m", "e", "s", " ", "V", "e", "r", "s", "i", "o", "n">>,
     aliases |-> [tag |-> "array",
                  items |-> <<[isString |-> TRUE, value |-> <<"K", "J", "V">>],
                              [isString |-> TRUE, value |-> <<"K", "i", "n", "g", " ", "J", "a", "m", "e", "s">>],
                              [isString |-> TRUE, value |-> <<"K", "i", "n", "g", " ", "J", "a", "m", "e", "s", " ", "V", "e", "r", "s", "i", "o", "n">>]>>]]

\* The user translation files the model draws from, in the order readDir
\* yields them: the text of each is JSON or not; parsed, its shape is "ok" or
\* names the check of validateUserTranslationFile (lines 143-194) it fails.
FileCatalogue ==
    LET absent == [tag |-> "absent", items |-> <<>>]
        esv(name, json, shape, aliases) ==
            [name |-> name, json |-> json, shape |-> shape, id |-> <<"e", "s", "v">>,
             shortName |-> <<"E", "S", "V">>, fullName |-> <<"E", "n", "g", "l", "i", "s", "h", " ", "S", "t", "d">>, aliases |-> aliases]
    IN << [name |-> "niv.svjson", json |-> TRUE, shape |-> "ok", id |-> <<"n", "i", "v">>,
           shortName |-> <<"N", "I", "V">>, fullName |-> <<"N", "e", "w", " ", "I", "n", "t", "l">>,
           aliases |-> [tag |-> "array",
                        items |-> <<[isString |-> TRUE, value |-> <<"N", "I", "V">>],
                                    [isString |-> FALSE, value |-> <<>>]>>]],
          [name |-> "nivuk.svjson", json |-> TRUE, shape |-> "ok", id |-> <<"n", "i", "v", "u", "k">>,
           shortName |-> <<"N", "I", "V", " ", "U", "K">>, fullName |-> <<"N", "I", "V", " ", "U", "K">>, aliases |-> absent],
          esv("esv.svjson", TRUE, "ok", [tag |-> "string", items |-> <<>>]),
          esv("broken.svjson", FALSE, "ok", absent),
          esv("nometa.svjson", TRUE, "missingKey", absent),
          esv("plainverses.svjson", TRUE, "verseNotObject", absent) >>

FileNames == {FileCatalogue[i].name : i \in 1..Len(FileCatalogue)}

\* validateUserTranslationFile lines 143-194: TRUE when the file is accepted
validateUserTranslationFile(raw) == raw.shape = "ok"

\* normalizeTranslation lines 100-141 for a validated user file (the fallback
\* metadata is the file itself) or the built-in data
normalizeTranslation(raw, fallbackMetadata, isBuiltin) ==
    [id |-> raw.id, shortName |-> raw.shortName, fullName |-> raw.fullName,
     aliases |-> IF raw.aliases.tag = "array"
                 THEN [tag |-> "array",
                       items |-> SelectSeq(raw.aliases.items, LAMBDA a : a.isString)]
                 ELSE fallbackMetadata.aliases,
     isBuiltin |-> isBuiltin]

\* loadUserTranslations lines 223-251 over a directory listing: the files that
\* do not parse (JSON.parse throws, caught at line 245) or do not validate are
\* skipped
RECURSIVE loadUserTranslations(_)
loadUserTranslations(entries) ==
    IF entries = <<>> THEN <<>>
    ELSE LET f == Head(entries)
             rest == loadUserTranslations(Tail(entries))
         IN IF f.json /\ validateUserTranslationFile(f)
            THEN <<normalizeTranslation(f, f, FALSE)>> \o rest
            ELSE rest

\* the files of the catalogue that are in the directory, in listing order
DirEntries(dir) == SelectSeq(FileCatalogue, LAMBDA f : f.name \in dir)

\* String.prototype.localeCompare(a, b) <= 0 on the characters of the model
LocaleLessEq(a, b) ==
    LET alphabet == <<" ", "0", "1", "2", "3", "4", "5", "6", "7", "8", "9">> \o LowerCaseLetters
        Rank(c) == CHOOSE i \in 1..Len(alphabet) : alphabet[i] = LowerChar(c)
        RECURSIVE LessEq(_, _)
        LessEq(x, y) ==
            IF x = <<>> THEN TRUE
            ELSE IF y = <<>> THEN FALSE
            ELSE IF Rank(Head(x)) # Rank(Head(y)) THEN Rank(Head(x)) < Rank(Head(y))
            ELSE LessEq(Tail(x), Tail(y))
    IN LessEq(a, b)

\* the comparator of buildLibraryState lines 295-298 does not put b before a
SummaryOrder(a, b) ==
    IF a.isBuiltin # b.isBuiltin THEN a.isBuiltin
    ELSE LocaleLessEq(a.shortName, b.shortName)

\* buildAliasIndex lines 49-72: threw, or the alias index (the entries in
\* insertion order) and the alias entries (longest alias first).  addAlias is
\* lines 55-61; (meta.aliases || []).forEach of line 67 throws a TypeError on
\* a value that is neither absent nor an array.
buildAliasIndex(summaries) ==
    LET addAlias(entries, alias, id) ==
            LET normalized == normalizeAlias(alias)
            IN IF normalized = <<>> THEN entries
               ELSE IF \E i \in 1..Len(entries) : entries[i].alias = normalized
               THEN entries
               ELSE Append(entries, [alias |-> normalized, id |-> id])
        RECURSIVE addAliases(_, _, _)
        addAliases(entries, items, id) ==
            IF items = <<>> THEN entries
            ELSE addAliases(addAlias(entries, Head(items).value, id), Tail(items), id)
        RECURSIVE ForEachSummary(_, _)
        ForEachSummary(entries, rest) ==
            IF rest = <<>> THEN entries
            ELSE LET meta == Head(rest)
                     own == addAlias(addAlias(addAlias(entries, meta.id, meta.id),
                                              meta.shortName, meta.id),
                                     meta.fullName, meta.id)
                 IN ForEachSummary(addAliases(own, meta.aliases.items, meta.id), Tail(rest))
        idx == ForEachSummary(<<>>, summaries)
    IN IF \E i \in 1..Len(summaries) : summaries[i].aliases.tag \notin {"array", "absent"}
       THEN [threw |-> TRUE, aliasIndex |-> <<>>, aliasEntries |-> <<>>]
       ELSE [threw |-> FALSE, aliasIndex |-> idx,
             aliasEntries |-> StableSort(idx, [a, b \in SetOf(idx) |-> Len(a.alias) >= Len(b.alias)])]

\* buildLibraryState lines 263-303 from what loadBuiltinKjv and
\* loadUserTranslations yielded; translations[translation.id] = translation
\* keeps the position of a key that is assigned again (lines 271-280)
LibraryStateOf(builtin, userTranslations) ==
    LET Set(translations, t) ==
            IF \E i \in 1..Len(translations) : translations[i].id = t.id
            THEN [i \in 1..Len(translations) |->
                    IF translations[i].id = t.id THEN t ELSE translations[i]]
            ELSE Append(translations, t)
        RECURSIVE Merge(_, _)
        Merge(translations, user) ==
            IF user = <<>> THEN translations
            ELSE IF Head(user).id = BUILTIN_KJV_METADATA.id
            THEN Merge(translations, Tail(user))
            ELSE Merge(Set(translations, Head(user)), Tail(user))
        translations ==
            Merge(IF builtin
                  THEN <<normalizeTranslation(BUILTIN_KJV_METADATA, BUILTIN_KJV_METADATA, TRUE)>>
                  ELSE <<>>,
                  userTranslations)
        summaries == StableSort(translations,
                               [a, b \in SetOf(translations) |-> SummaryOrder(a, b)])
        idx == buildAliasIndex(summaries)
    IN [threw |-> idx.threw, translations |-> translations, summaries |-> summaries,
        aliasIndex |-> idx.aliasIndex, aliasEntries |-> idx.aliasEntries]

LibInit ==
    /\ libraryState = 0
    /\ libraryPromise = 0
    /\ libBuild = [b \in (1..MaxLibBuilds) |-> UnusedLibBuild]
    /\ libHeap = [b \in (1..MaxLibBuilds) |-> NoState]
    /\ nextLibBuild = 1
    /\ reader = [r \in (1..NumReaders) |-> IdleReader]
    /\ userDir = {}
    /\ builtinOk \in BOOLEAN

\* the library component alone
InitLib == LibInit /\ IdxIdle /\ CueIdle /\ ApiIdle /\ ScoreIdle /\ ConcIdle /\ OvIdle /\ GvIdle /\ TwIdle /\ CcIdle /\ GlIdle

\* a mutant of NewStateObject: the alias index of the state published before is
\* kept instead of the one just built
NewStateObject_KeepAliases(b, st) ==
    IF libraryState = 0
    THEN [by |-> b,
          translations |-> [by |-> b, val |-> st.translations],
          summaries |-> [by |-> b, val |-> st.summaries],
          aliasIndex |-> [by |-> b, val |-> st.aliasIndex],
          aliasEntries |-> [by |-> b, val |-> st.aliasEntries]]
    ELSE [by |-> b,
          translations |-> [by |-> b, val |-> st.translations],
          summaries |-> [by |-> b, val |-> st.summaries],
          aliasIndex |-> libHeap[libraryState].aliasIndex,
          aliasEntries |-> libHeap[libraryState].aliasEntries]

\* buildLibraryState line 302: the state object build b returns, every member
\* tagged with the build that computed it
NewStateObject(b, st) ==
    [by |-> b,
     translations |-> [by |-> b, val |-> st.translations],
     summaries |-> [by |-> b, val |-> st.summaries],
     aliasIndex |-> [by |-> b, val |-> st.aliasIndex],
     aliasEntries |-> [by |-> b, val |-> st.aliasEntries]]

\* buildLibraryState().then(...) lines 308 and 317: a build starts and becomes
\* the library promise; it first awaits loadBuiltinKjv (line 266)
StartLibBuild ==
    /\ nextLibBuild <= MaxLibBuilds
    /\ libBuild' = [libBuild EXCEPT ![nextLibBuild] = [pc |-> "builtin", builtin |-> FALSE]]
    /\ libraryPromise' = nextLibBuild
    /\ nextLibBuild' = nextLibBuild + 1

\* ensureLibraryLoaded lines 305-314 called by one of the read functions
\* getAvailableTranslations, getTranslationById, resolveTranslationToken and
\* findTranslationCue (lines 325-364), up to the await of its result
ReadStart(r) ==
    /\ reader[r].pc \in {"idle", "done"}
    /\ IF libraryState # 0
       THEN /\ reader' = [reader EXCEPT ![r] =
                   [IdleReader EXCEPT !.pc = "have", !.ref = libraryState]]
            /\ UNCHANGED <<libBuild, libraryPromise, nextLibBuild>>
       ELSE IF libraryPromise = 0
       THEN /\ StartLibBuild
            /\ reader' = [reader EXCEPT ![r] =
                   [IdleReader EXCEPT !.pc = "await", !.awaiting = nextLibBuild]]
       ELSE /\ reader' = [reader EXCEPT ![r] =
                   [IdleReader EXCEPT !.pc = "await", !.awaiting = libraryPromise]]
            /\ UNCHANGED <<libBuild, libraryPromise, nextLibBuild>>
    /\ UNCHANGED <<libraryState, libHeap, userDir, builtinOk>>

\* refreshBibleLibrary lines 316-321, up to the await of the new promise; its
\* caller gets the summaries of the state this build returns, or its rejection
RefreshStart ==
    /\ StartLibBuild
    /\ UNCHANGED <<libraryState, libHeap, reader, userDir, builtinOk>>

\* buildLibraryState lines 266-271: loadBuiltinKjv has settled (lines 196-207),
\* loadUserTranslations is awaited
LibBuiltinLoaded(b) ==
    /\ libBuild[b].pc = "builtin"
    /\ libBuild' = [libBuild EXCEPT ![b] = [pc |-> "user", builtin |-> builtinOk]]
    /\ UNCHANGED <<libraryState, libraryPromise, libHeap, nextLibBuild, reader,
                   userDir, builtinOk>>

\* buildLibraryState lines 271-302 after loadUserTranslations has settled, and
\* the then-callback of lines 308-311 / 317-320, which publishes the state; when
\* buildAliasIndex throws the promise rejects and nothing is published
LibBuildFinish(b) ==
    /\ libBuild[b].pc = "user"
    /\ LET st == LibraryStateOf(libBuild[b].builtin,
                                loadUserTranslations(DirEntries(userDir)))
       IN IF st.threw
          THEN /\ libBuild' = [libBuild EXCEPT ![b].pc = "rejected"]
               /\ UNCHANGED <<libraryState, libHeap>>
          ELSE /\ libBuild' = [libBuild EXCEPT ![b].pc = "done"]
               /\ libHeap' = [libHeap EXCEPT ![b] = NewStateObject(b, st)]
               /\ libraryState' = b
    /\ UNCHANGED <<libraryPromise, nextLibBuild, reader, userDir, builtinOk>>

\* the awaited library promise has settled: its value is the state its build
\* returned (lines 313, 321); a rejection reaches the caller of the read function
ReaderResume(r) ==
    /\ reader[r].pc = "await"
    /\ libBuild[reader[r].awaiting].pc \in {"done", "rejected"}
    /\ reader' = [reader EXCEPT ![r] =
          IF libBuild[reader[r].awaiting].pc = "done"
          THEN [@ EXCEPT !.pc = "have", !.ref = reader[r].awaiting, !.awaiting = 0]
          ELSE [IdleReader EXCEPT !.pc = "done", !.outcome = "rejected"]]
    /\ UNCHANGED <<libraryState, libraryPromise, libBuild, libHeap, nextLibBuild,
                   userDir, builtinOk>>

\* the read function reads the members of the state it obtained and returns
\* (lines 322, 329, 336, 345, 352-363); the reference to the state is dropped
ReaderUse(r) ==
    /\ reader[r].pc = "have"
    /\ reader' = [reader EXCEPT ![r] =
          [IdleReader EXCEPT !.pc = "done", !.outcome = "resolved"]]
    /\ UNCHANGED <<libraryState, libraryPromise, libBuild, libHeap, nextLibBuild,
                   userDir, builtinOk>>

\* the user puts a translation file into the Bible directory in place of the
\* one that is there
SetUserFile(name) ==
    /\ userDir # {name}
    /\ userDir' = {name}
    /\ UNCHANGED <<libraryState, libraryPromise, libBuild, libHeap, nextLibBuild,
                   reader, builtinOk>>

LibNext ==
    \/ \E r \in (1..NumReaders) : ReadStart(r) /\ UNCHANGED <<idxVars, cue, apiVars, scoreVars, concVars, ov, gv, tw, cc, gl>>
    \/ RefreshStart /\ UNCHANGED <<idxVars, cue, apiVars, scoreVars, concVars, ov, gv, tw, cc, gl>>
    \/ \E b \in (1..MaxLibBuilds) : LibBuiltinLoaded(b) /\ UNCHANGED <<idxVars, cue, apiVars, scoreVars, concVars, ov, gv, tw, cc, gl>>
    \/ \E b \in (1..MaxLibBuilds) : LibBuildFinish(b) /\ UNCHANGED <<idxVars, cue, apiVars, scoreVars, concVars, ov, gv, tw, cc, gl>>
    \/ \E r \in (1..NumReaders) : ReaderResume(r) /\ UNCHANGED <<idxVars, cue, apiVars, scoreVars, concVars, ov, gv, tw, cc, gl>>
    \/ \E r \in (1..NumReaders) : ReaderUse(r) /\ UNCHANGED <<idxVars, cue, apiVars, scoreVars, concVars, ov, gv, tw, cc, gl>>
    \/ \E name \in FileNames : SetUserFile(name) /\ UNCHANGED <<idxVars, cue, apiVars, scoreVars, concVars, ov, gv, tw, cc, gl>>

SpecLib == InitLib /\ [][LibNext]_vars

-----------------------------------------------------------------------------
(* Claims about the translation library.                                   *)

\* the state object o was built whole by one build that has completed
Coherent(o) ==
    /\ o # NoState
    /\ libBuild[o.by].pc = "done"
    /\ o.translations.by = o.by
    /\ o.summaries.by = o.by
    /\ o.aliasIndex.by = o.by
    /\ o.aliasEntries.by = o.by
    /\ o.summaries.val =
          StableSort(o.translations.val,
                     [a, b \in SetOf(o.translations.val) |-> SummaryOrder(a, b)])
    /\ o.aliasIndex.val = buildAliasIndex(o.summaries.val).aliasIndex
    /\ o.aliasEntries.val =
          StableSort(o.aliasIndex.val,
                     [a, b \in SetOf(o.aliasIndex.val) |-> Len(a.alias) >= Len(b.alias)])

\* the state objects a read can observe: the published one and those the
\* readers hold
C6_Snapshots ==
    /\ libraryState # 0 => Coherent(libHeap[libraryState])
    /\ \A r \in (1..NumReaders) : reader[r].ref # 0 => Coherent(libHeap[reader[r].ref])

\* a state object is never modified once it exists
C6_Immutable ==
    \A b \in (1..MaxLibBuilds) : libHeap[b] # NoState => libHeap'[b] = libHeap[b]

\* a read that starts while a state is published is served from that state, also
\* while a refresh is still building
C6_ServedFromPublished ==
    \A r \in (1..NumReaders) :
        /\ libraryState # 0
        /\ reader[r].pc \in {"idle", "done"}
        /\ reader'[r].pc \notin {"idle", "done"}
        => reader'[r].pc = "have" /\ reader'[r].ref = libraryState

\* C6: under any interleaving of refreshBibleLibrary with the four read
\* functions, every state object a read observes (the published one, or the one
\* a reader holds) was built whole by one single completed build, a state object
\* is never modified after it exists, and a read that starts while a state is
\* published is served from that state even while a refresh is building.
C6_AtomicRefresh ==
    /\ []C6_Snapshots
    /\ [][C6_Immutable /\ C6_ServedFromPublished]_vars

\* a reader holds the previously published state while a refresh that has seen
\* another directory has published a new one
C6_Witness ==
    \E r \in (1..NumReaders) :
        /\ reader[r].pc = "have"
        /\ libraryState # 0
        /\ reader[r].ref # libraryState
        /\ libHeap[reader[r].ref].translations.val # libHeap[libraryState].translations.val

\* C27: whenever no library build is in flight and the build started last
\* has produced a state, the published state is the state of that build.
C27_LatestBuildPublished ==
    LET latest == nextLibBuild - 1
    IN (/\ latest >= 1
        /\ \A b \in 1..MaxLibBuilds : libBuild[b].pc \notin {"builtin", "user"}
        /\ libBuild[latest].pc = "done") =>
           libraryState = latest

\* C7: whatever the user translation files hold, building the library
\* completes and no read of the library rejects.
C7_BuildNeverFails ==
    /\ \A b \in (1..MaxLibBuilds) : libBuild[b].pc # "rejected"
    /\ \A r \in (1..NumReaders) : reader[r].outcome # "rejected"

-----------------------------------------------------------------------------
(* findTranslationCue (bibleLibraryService.ts lines 348-364).              *)

\* the words the texts of the model are made of
CueWords ==
    { <<"K", "J", "V">>, <<"k", "i", "n", "g">>, <<"j", "a", "m", "e", "s">>, <<"v", "e", "r", "s", "i", "o", "n">>, <<"n", "i", "v">>, <<"u", "k">>, <<"i", "n">>, <<"t", "h", "e">>, <<"r", "e", "a", "d">> }

\* the texts: up to MaxCueWords words separated by single spaces
CueTexts ==
    {JoinSpace(ws) : ws \in UNION {[1..n -> CueWords] : n \in 0..MaxCueWords}}

\* findTranslationCue lines 352-354
hasContext(normalized) ==
    \/ PatternTest(<<"t", "r", "a", "n", "s", "l", "a", "t", "i", "o", "n">>, normalized)
    \/ PatternTest(<<"v", "e", "r", "s", "i", "o", "n">>, normalized)
    \/ PatternTest(<<"i", "n", " ", "t", "h", "e">>, normalized)
    \/ PatternTest(<<"f", "r", "o", "m", " ", "t", "h", "e">>, normalized)

\* findTranslationCue line 358: the entry is taken
CueGate(context, alias) == context \/ Len(alias) <= 4

\* findTranslationCue lines 356-363: the first entry that matches and is taken
RECURSIVE FirstCue(_, _, _)
FirstCue(entries, normalized, context) ==
    IF entries = <<>> THEN NoCue
    ELSE IF /\ PatternTest(aliasToPattern(Head(entries).alias), normalized)
            /\ CueGate(context, Head(entries).alias)
    THEN [text |-> normalized, called |-> TRUE, id |-> Head(entries).id,
          alias |-> Head(entries).alias]
    ELSE FirstCue(Tail(entries), normalized, context)

\* findTranslationCue lines 348-364 on the state ensureLibraryLoaded yields;
\* id <<>> is null
findTranslationCue(text, state) ==
    LET normalized == normalizeAlias(text)
        found == IF normalized = <<>> THEN NoCue
                 ELSE FirstCue(state.aliasEntries.val, normalized, hasContext(normalized))
    IN [found EXCEPT !.text = text, !.called = TRUE]

\* the library is loaded: the first build has published the state of a
\* directory of well-formed translation files
CueInit ==
    /\ builtinOk \in BOOLEAN
    /\ userDir \in SUBSET {"niv.svjson", "nivuk.svjson"}
    /\ libraryState = 1
    /\ libraryPromise = 1
    /\ nextLibBuild = 2
    /\ libBuild = [b \in (1..MaxLibBuilds) |->
          IF b = 1 THEN [pc |-> "done", builtin |-> builtinOk] ELSE UnusedLibBuild]
    /\ libHeap = [b \in (1..MaxLibBuilds) |->
          IF b = 1
          THEN NewStateObject(1, LibraryStateOf(builtinOk,
                                    loadUserTranslations(DirEntries(userDir))))
          ELSE NoState]
    /\ reader = [r \in (1..NumReaders) |-> IdleReader]
    /\ cue \in {[NoCue EXCEPT !.text = text] : text \in CueTexts}

InitCue == CueInit /\ IdxIdle /\ ApiIdle /\ ScoreIdle /\ ConcIdle /\ OvIdle /\ GvIdle /\ TwIdle /\ CcIdle /\ GlIdle

\* the findTranslationCue(text) call, from the call to its result
FindTranslationCue ==
    /\ ~cue.called
    /\ libraryState # 0
    /\ cue' = findTranslationCue(cue.text, libHeap[libraryState])
    /\ UNCHANGED <<idxVars, libVars, apiVars, scoreVars, concVars, ov, gv, tw, cc, gl>>

CueNext == FindTranslationCue

SpecCue == InitCue /\ [][CueNext]_vars

-----------------------------------------------------------------------------
(* Claims about findTranslationCue.                                        *)

\* the entries of the published state whose alias occurs in the text at word
\* boundaries
OccurringEntries(text) ==
    LET entries == libHeap[libraryState].aliasEntries.val
    IN {i \in 1..Len(entries) : PatternTest(aliasToPattern(entries[i].alias), text)}

\* C8: findTranslationCue returns a translation id only when a registered
\* alias occurs in the text at word boundaries and either the text holds a
\* contextual cue or the matched alias is longer than 4 characters.
C8_CueNeedsContextOrLongAlias ==
    cue.called /\ cue.id # <<>> =>
        /\ \E i \in OccurringEntries(normalizeAlias(cue.text)) :
              libHeap[libraryState].aliasEntries.val[i].alias = cue.alias
        /\ hasContext(normalizeAlias(cue.text)) \/ Len(cue.alias) > 4

\* C9: the alias entries are ordered by non-increasing alias length, and when
\* findTranslationCue returns an id it is the id of the longest registered
\* alias occurring in the text.
C9_AliasSpecificity ==
    LET entries == libHeap[libraryState].aliasEntries.val
    IN /\ \A i, j \in 1..Len(entries) :
              i < j => Len(entries[i].alias) >= Len(entries[j].alias)
       /\ cue.called /\ cue.id # <<>> =>
              \A i \in OccurringEntries(normalizeAlias(cue.text)) :
                  Len(entries[i].alias) > Len(cue.alias) => entries[i].id = cue.id

-----------------------------------------------------------------------------
(* API lookup: goLiveScriptureReference, resolveReferences,                *)
(* goLiveReference (smartVersesApiService.ts).                             *)

\* the verse references a lookup can name
RefNames == {"John 3:16", "Psalm 23:1"}

\* the queries of the model: a blank one, a citation, a phrase
ApiQueries == {"  ", "John 3:16", "the lord is my shepherd"}

\* String.trim of a query of the model
TrimQuery(query) == IF query = "  " THEN "" ELSE query

\* lists of at most MaxRefs reference names
RefLists == UNION {[1..n -> RefNames] : n \in 0..MaxRefs}

\* the DetectedBibleReference list detectAndLookupReferences resolves to
DirectReferences(names) ==
    [i \in 1..Len(names) |-> [reference |-> names[i], id |-> "detected"]]

\* searchBibleTextAsReferences lines 185-199: each search result becomes a
\* DetectedBibleReference with a text-search id
searchBibleTextAsReferences(names) ==
    [i \in 1..Len(names) |-> [reference |-> names[i], id |-> "text-search"]]

\* resolveReferences line 20, with the fallback taken for every list
DirectSuffices_Never(direct) == FALSE

\* resolveReferences line 20: if (direct.length > 0) return direct
DirectSuffices(direct) == Len(direct) > 0

\* goLiveScriptureReference lines 111-116, up to the await of
\* detectAndLookupReferences in resolveReferences (line 19); the settings
\* decide whether an auto-clear is scheduled
GoLiveStart(query, clear) ==
    /\ api.pc \in {"idle", "done"}
    /\ IF TrimQuery(query) = ""
       THEN api' = [IdleApi EXCEPT !.pc = "done", !.result = "null"]
       ELSE api' = [IdleApi EXCEPT !.pc = "direct", !.clear = clear]
    /\ UNCHANGED <<apiAutoClearTimeout, apiOutput>>

\* goLiveScriptureReference lines 117-120 once the references are known:
\* without references it returns null, else it enters goLiveReference, which
\* cancels the pending auto-clear (lines 30-33) before its first write
GoLiveResolved(a, refs) ==
    IF refs = <<>>
    THEN /\ api' = [a EXCEPT !.pc = "done", !.refs = refs, !.result = "null"]
         /\ UNCHANGED <<apiAutoClearTimeout, apiOutput>>
    ELSE /\ api' = [a EXCEPT !.pc = "writing", !.refs = refs]
         /\ apiAutoClearTimeout' = FALSE
         /\ UNCHANGED apiOutput

\* resolveReferences lines 19-21: detectAndLookupReferences resolves; a
\* non-empty list is returned, an empty one starts the text search
ApiDirectReturns(names) ==
    /\ api.pc = "direct"
    /\ LET direct == DirectReferences(names)
           a == [api EXCEPT !.directReturned = TRUE, !.direct = direct]
       IN IF DirectSuffices(direct)
          THEN GoLiveResolved(a, direct)
          ELSE /\ api' = [a EXCEPT !.pc = "search", !.searchCalls = @ + 1]
               /\ UNCHANGED <<apiAutoClearTimeout, apiOutput>>
    /\ UNCHANGED <<idxVars, libVars, cue, scoreVars, concVars, ov, gv, tw, cc, gl>>

\* resolveReferences line 21: the text search resolves
ApiSearchReturns(names) ==
    /\ api.pc = "search"
    /\ GoLiveResolved(api, searchBibleTextAsReferences(names))
    /\ UNCHANGED <<idxVars, libVars, cue, scoreVars, concVars, ov, gv, tw, cc, gl>>

\* resolveReferences line 21: the text search rejects (its index build
\* failed); nothing in goLiveScriptureReference catches it
ApiSearchRejects ==
    /\ api.pc = "search"
    /\ api' = [api EXCEPT !.pc = "done", !.result = "rejected"]
    /\ UNCHANGED <<apiAutoClearTimeout, apiOutput>>
    /\ UNCHANGED <<idxVars, libVars, cue, scoreVars, concVars, ov, gv, tw, cc, gl>>

\* goLiveReference lines 35-87 and goLiveScriptureReference lines 119-125:
\* the writes succeed, the auto-clear is scheduled when the settings ask for
\* it, and the first reference is returned; or a write throws and null is
\* returned
ApiGoLiveSettles(ok) ==
    /\ api.pc = "writing"
    /\ IF ok
       THEN /\ apiOutput' = api.refs[1].reference
            /\ apiAutoClearTimeout' = api.clear
            /\ api' = [api EXCEPT !.pc = "done", !.result = api.refs[1].reference]
       ELSE /\ api' = [api EXCEPT !.pc = "done", !.result = "null"]
            /\ UNCHANGED <<apiAutoClearTimeout, apiOutput>>
    /\ UNCHANGED <<idxVars, libVars, cue, scoreVars, concVars, ov, gv, tw, cc, gl>>

\* goLiveReference lines 64-86: the auto-clear timer fires
ApiAutoClearFires ==
    /\ apiAutoClearTimeout
    /\ apiOutput' = ""
    /\ apiAutoClearTimeout' = FALSE
    /\ UNCHANGED api
    /\ UNCHANGED <<idxVars, libVars, cue, scoreVars, concVars, ov, gv, tw, cc, gl>>

InitApi == ApiIdle /\ IdxIdle /\ LibIdle /\ CueIdle /\ ScoreIdle /\ ConcIdle /\ OvIdle /\ GvIdle /\ TwIdle /\ CcIdle /\ GlIdle

ApiNext ==
    \/ \E query \in ApiQueries, clear \in BOOLEAN :
          GoLiveStart(query, clear) /\ UNCHANGED <<idxVars, libVars, cue, scoreVars, concVars, ov, gv, tw, cc, gl>>
    \/ \E names \in RefLists : ApiDirectReturns(names)
    \/ \E names \in RefLists : ApiSearchReturns(names)
    \/ ApiSearchRejects
    \/ \E ok \in BOOLEAN : ApiGoLiveSettles(ok)
    \/ ApiAutoClearFires

SpecApi == InitApi /\ [][ApiNext]_vars

-----------------------------------------------------------------------------
(* Claims about resolveReferences.                                         *)

\* C5: in resolveReferences, whenever the direct-citation lookup returns at
\* least one reference, exactly that list is the result and the text-search
\* fallback is not invoked; the fallback is invoked exactly when the direct
\* lookup returned zero references.
C5_CitationPrecedence ==
    /\ api.searchCalls = IF api.directReturned /\ api.direct = <<>> THEN 1 ELSE 0
    /\ api.directReturned /\ api.direct # <<>> => api.refs = api.direct

\* a call whose direct lookup found two references has entered goLiveReference
\* with them
C5_Witness ==
    /\ api.pc = "writing"
    /\ Len(api.direct) = 2
    /\ api.refs = api.direct
    /\ api.searchCalls = 0

-----------------------------------------------------------------------------
(* Offline paraphrase scoring: analyzeTranscriptChunkOffline and its       *)
(* helpers (smartVersesOfflineParaphraseService.ts).  Scores are exact     *)
(* fractions <<numerator, denominator>> in lowest terms.                   *)

DEFAULT_MIN_WORDS == 4
DEFAULT_MAX_RESULTS == 3
DEFAULT_MAX_WINDOWS == 16
WINDOW_MIN_WORDS == 4
WINDOW_MAX_WORDS == 18

\* STOP_WORDS lines 23-32
STOP_WORDS ==
    { <<"a">>, <<"a", "n">>, <<"t", "h", "e">>, <<"a", "n", "d">>,
      <<"o", "r">>, <<"b", "u", "t">>, <<"i", "f">>, <<"t", "h", "e", "n">>,
      <<"s", "o">>, <<"t", "h", "a", "n">>, <<"t", "h", "a", "t">>,
      <<"t", "h", "i", "s">>, <<"t", "h", "e", "s", "e">>,
      <<"t", "h", "o", "s", "e">>, <<"i", "s">>, <<"a", "r", "e">>,
      <<"w", "a", "s">>, <<"w", "e", "r", "e">>, <<"b", "e">>,
      <<"b", "e", "e", "n">>, <<"b", "e", "i", "n", "g">>, <<"t", "o">>,
      <<"o", "f">>, <<"i", "n">>, <<"o", "n">>, <<"f", "o", "r">>,
      <<"w", "i", "t", "h">>, <<"a", "s">>, <<"a", "t">>, <<"b", "y">>,
      <<"f", "r", "o", "m">>, <<"i", "n", "t", "o">>, <<"o", "v", "e", "r">>,
      <<"u", "n", "d", "e", "r">>, <<"a", "b", "o", "u", "t">>,
      <<"a", "f", "t", "e", "r">>, <<"b", "e", "f", "o", "r", "e">>,
      <<"b", "e", "t", "w", "e", "e", "n">>,
      <<"t", "h", "r", "o", "u", "g", "h">>,
      <<"d", "u", "r", "i", "n", "g">>,
      <<"w", "i", "t", "h", "o", "u", "t">>,
      <<"w", "i", "t", "h", "i", "n">>, <<"n", "o", "t">>, <<"n", "o">>,
      <<"n", "o", "r">>, <<"t", "o", "o">>, <<"v", "e", "r", "y">>,
      <<"c", "a", "n">>, <<"c", "o", "u", "l", "d">>,
      <<"s", "h", "o", "u", "l", "d">>, <<"w", "o", "u", "l", "d">>,
      <<"w", "i", "l", "l">>, <<"j", "u", "s", "t">>, <<"o", "n", "l", "y">>,
      <<"a", "l", "s", "o">>, <<"e", "v", "e", "n">>,
      <<"s", "t", "i", "l", "l">>, <<"y", "e", "t">>, <<"h", "i", "m">>,
      <<"h", "i", "s">>, <<"h", "e", "r">>, <<"h", "e", "r", "s">>,
      <<"t", "h", "e", "m">>, <<"t", "h", "e", "i", "r">>,
      <<"t", "h", "e", "i", "r", "s">>, <<"y", "o", "u">>,
      <<"y", "o", "u", "r">>, <<"y", "o", "u", "r", "s">>, <<"w", "e">>,
      <<"o", "u", "r">>, <<"o", "u", "r", "s">>, <<"i">>, <<"m", "e">>,
      <<"m", "y">>, <<"m", "i", "n", "e">>, <<"h", "e">>, <<"s", "h", "e">>,
      <<"t", "h", "e", "y">>, <<"i", "t">>, <<"i", "t", "s">>, <<"u", "s">> }

\* the fraction n / d, d > 0, in lowest terms
Rat(n, d) ==
    LET RECURSIVE GCD(_, _)
        GCD(a, b) == IF b = 0 THEN a ELSE GCD(b, a % b)
        g == GCD(IF n < 0 THEN 0 - n ELSE n, d)
    IN <<n \div g, d \div g>>

RatAdd(a, b) == Rat(a[1] * b[2] + b[1] * a[2], a[2] * b[2])

RatMul(a, b) == Rat(a[1] * b[1], a[2] * b[2])

\* a / b for b > 0
RatDiv(a, b) == Rat(a[1] * b[2], a[2] * b[1])

RatLess(a, b) == a[1] * b[2] < b[1] * a[2]

\* the maximal runs of characters outside seps, in order:
\* String.split on a run of separators, without the empty pieces
Pieces(s, seps) ==
    LET starts == {i \in 1..Len(s) : s[i] \notin seps /\ (i = 1 \/ s[i - 1] \in seps)}
        ends == {i \in 1..Len(s) : s[i] \notin seps /\ (i = Len(s) \/ s[i + 1] \in seps)}
        StartOf(k) == CHOOSE i \in starts : Cardinality({j \in starts : j < i}) = k - 1
        EndOf(k) == CHOOSE i \in ends : Cardinality({j \in ends : j < i}) = k - 1
    IN [k \in 1..Cardinality(starts) |-> SubSeq(s, StartOf(k), EndOf(k))]

\* normalizeText lines 56-64: lower case, every character outside [a-z0-9] a
\* space, runs of spaces collapsed, trimmed
normalizeText(text) ==
    LET IsLowerAlnum(c) ==
            \/ \E i \in 1..Len(LowerCaseLetters) : LowerCaseLetters[i] = c
            \/ c \in {"0", "1", "2", "3", "4", "5", "6", "7", "8", "9"}
        lower == ToLowerCase(text)
        spaced == [i \in 1..Len(lower) |->
                      IF IsLowerAlnum(lower[i]) THEN lower[i] ELSE " "]
    IN JoinSpace(Pieces(spaced, {" "}))

\* lightStem lines 66-74
lightStem(token) ==
    LET EndsWith(suffix) ==
            /\ Len(token) >= Len(suffix)
            /\ SubSeq(token, Len(token) - Len(suffix) + 1, Len(token)) = suffix
        DropLast(n) == SubSeq(token, 1, Len(token) - n)
    IN IF Len(token) <= 4 THEN token
       ELSE IF EndsWith(<<"i", "n", "g">>) /\ Len(token) > 6 THEN DropLast(3)
       ELSE IF EndsWith(<<"e", "d">>) /\ Len(token) > 5 THEN DropLast(2)
       ELSE IF EndsWith(<<"e", "s">>) /\ Len(token) > 5 THEN DropLast(2)
       ELSE IF EndsWith(<<"l", "y">>) /\ Len(token) > 5 THEN DropLast(2)
       ELSE IF EndsWith(<<"s">>) /\ Len(token) > 4 THEN DropLast(1)
       ELSE token

\* tokenize lines 76-83
tokenize(text) ==
    LET words == Pieces(normalizeText(text), {" "})
    IN SelectSeq([i \in 1..Len(words) |-> lightStem(words[i])],
                 LAMBDA token : Len(token) > 2 /\ token \notin STOP_WORDS)

\* buildBigrams lines 85-92
buildBigrams(tokens) ==
    IF Len(tokens) < 2 THEN <<>>
    ELSE [i \in 1..(Len(tokens) - 1) |-> tokens[i] \o <<" ">> \o tokens[i + 1]]

\* a mutant of WindowKey: the windows are told apart by their text
WindowKey_Text(window) == window.text

\* buildTextWindows line 140: the key of a window in the set seen; no token
\* holds the "|" the tokens are joined with
WindowKey(window) == window.tokens

\* a mutant of Unshift: the window of the whole text is put last
Unshift_Push(full, windows) == windows \o full

\* buildTextWindows lines 128-135: windows.unshift of the window of the
\* whole text, when it has one
Unshift(full, windows) == full \o windows

\* buildTextWindows lines 94-148.  A window is kept when it has
\* WINDOW_MIN_WORDS tokens (lines 110, 122, 129); Slide is the loop of lines
\* 116-125 over a sentence of more than WINDOW_MAX_WORDS words; Dedupe is
\* lines 137-145.  The embedding <<>> of a window is an absent or null one.
buildTextWindows(text) ==
    LET Window(t) ==
            LET tokens == tokenize(t)
            IN IF Len(tokens) >= WINDOW_MIN_WORDS
               THEN <<[text |-> t, tokens |-> tokens, bigrams |-> buildBigrams(tokens),
                       embedding |-> <<>>]>>
               ELSE <<>>
        step == IF WINDOW_MAX_WORDS \div 3 > 4 THEN WINDOW_MAX_WORDS \div 3 ELSE 4
        RECURSIVE Slide(_, _)
        Slide(words, i) ==
            LET slice == SubSeq(words, i + 1,
                                IF i + WINDOW_MAX_WORDS < Len(words)
                                THEN i + WINDOW_MAX_WORDS ELSE Len(words))
            IN IF i >= Len(words) THEN <<>>
               ELSE IF Len(slice) < WINDOW_MIN_WORDS THEN <<>>
               ELSE Window(JoinSpace(slice)) \o Slide(words, i + step)
        RECURSIVE SentenceWindows(_)
        SentenceWindows(sentences) ==
            IF sentences = <<>> THEN <<>>
            ELSE LET words == Pieces(Head(sentences), {" "})
                 IN (IF Len(words) <= WINDOW_MAX_WORDS THEN Window(Head(sentences))
                     ELSE Slide(words, 0)) \o SentenceWindows(Tail(sentences))
        RECURSIVE Dedupe(_, _)
        Dedupe(windows, deduped) ==
            IF windows = <<>> THEN deduped
            ELSE IF \E i \in 1..Len(deduped) : WindowKey(deduped[i]) = WindowKey(Head(windows))
            THEN Dedupe(Tail(windows), deduped)
            ELSE IF Len(deduped) + 1 >= DEFAULT_MAX_WINDOWS
            THEN Append(deduped, Head(windows))
            ELSE Dedupe(Tail(windows), Append(deduped, Head(windows)))
        trimmed == Trim(text)
        pieces == Pieces(trimmed, {".", "!", "?"})
        sentences == SelectSeq([i \in 1..Len(pieces) |-> Trim(pieces[i])],
                               LAMBDA piece : piece # <<>>)
        allCandidates == IF Len(sentences) > 0 THEN sentences ELSE <<trimmed>>
    IN IF trimmed = <<>> THEN <<>>
       ELSE Dedupe(Unshift(Window(trimmed), SentenceWindows(allCandidates)), <<>>)

\* the distinct elements of a sequence in the order of their first
\* occurrence: the keys of the Map of lines 152-155, Array.from(new Set(..))
Unique(seq) ==
    LET firsts == SelectSeq([i \in 1..Len(seq) |->
                      IF \E j \in 1..(i - 1) : seq[j] = seq[i] THEN <<>> ELSE <<seq[i]>>],
                      LAMBDA e : e # <<>>)
    IN [i \in 1..Len(firsts) |-> firsts[i][1]]

\* buildKeywordQuery lines 150-161, maxTokens = 8: the tokens by falling
\* count, then falling length
buildKeywordQuery(tokens) ==
    LET unique == Unique(tokens)
        Count(t) == Cardinality({i \in 1..Len(tokens) : tokens[i] = t})
        sorted == StableSort(unique,
                      [a, b \in SetOf(unique) |->
                          IF Count(b) # Count(a) THEN Count(b) - Count(a) <= 0
                          ELSE Len(b) - Len(a) <= 0])
    IN IF Len(tokens) = 0 THEN <<>>
       ELSE JoinSpace(SubSeq(sorted, 1, IF Len(sorted) < 8 THEN Len(sorted) ELSE 8))

\* buildKeywordQueryByLength lines 163-168, maxTokens = 6
buildKeywordQueryByLength(tokens) ==
    LET unique == Unique(tokens)
        sorted == StableSort(unique,
                      [a, b \in SetOf(unique) |-> Len(b) - Len(a) <= 0])
    IN IF Len(tokens) = 0 THEN <<>>
       ELSE JoinSpace(SubSeq(sorted, 1, IF Len(sorted) < 6 THEN Len(sorted) ELSE 6))

\* buildBigramQuery lines 170-178, maxBigrams = 3
buildBigramQuery(bigrams) ==
    LET unique == Unique(bigrams)
        Count(t) == Cardinality({i \in 1..Len(bigrams) : bigrams[i] = t})
        sorted == StableSort(unique,
                      [a, b \in SetOf(unique) |-> Count(b) - Count(a) <= 0])
    IN IF Len(bigrams) = 0 THEN <<>>
       ELSE JoinSpace(SubSeq(sorted, 1, IF Len(sorted) < 3 THEN Len(sorted) ELSE 3))

\* collectCandidates lines 300-319: the Map of queries, in insertion order.
\* Map.set on a key the Map holds replaces its value where the key stands.
queries(windows) ==
    LET MapSet(map, query, suggest) ==
            IF query = <<>> THEN map
            ELSE IF \E i \in 1..Len(map) : map[i].query = query
            THEN [i \in 1..Len(map) |->
                     IF map[i].query = query THEN [map[i] EXCEPT !.suggest = suggest]
                     ELSE map[i]]
            ELSE Append(map, [query |-> query, suggest |-> suggest])
        RECURSIVE ForEachWindow(_, _)
        ForEachWindow(ws, map) ==
            IF ws = <<>> THEN map
            ELSE ForEachWindow(Tail(ws),
                     MapSet(MapSet(MapSet(map, buildKeywordQuery(Head(ws).tokens), FALSE),
                                   buildKeywordQueryByLength(Head(ws).tokens), TRUE),
                            buildBigramQuery(Head(ws).bigrams), TRUE))
    IN ForEachWindow(windows, <<>>)

\* getTokenDataForVerse lines 180-189 on a reference that is not cached: a
\* leading "#" (with the white space after it) and the brackets of [word] are
\* removed, and the rest is tokenized
TokenDataOf(text) ==
    LET RECURSIVE StripBrackets(_)
        StripBrackets(t) ==
            LET Closes(p, k) == t[k] = "]" /\ \A j \in (p + 1)..(k - 1) : t[j] # "]"
                opens == {p \in 1..Len(t) :
                             t[p] = "[" /\ \E k \in (p + 2)..Len(t) : Closes(p, k)}
            IN IF opens = {} THEN t
               ELSE LET p == CHOOSE p \in opens : \A q \in opens : p <= q
                        k == CHOOSE k \in (p + 2)..Len(t) : Closes(p, k)
                    IN SubSeq(t, 1, p - 1) \o SubSeq(t, p + 1, k - 1)
                           \o StripBrackets(SubSeq(t, k + 1, Len(t)))
        RECURSIVE SkipSpaces(_)
        SkipSpaces(t) == IF t # <<>> /\ t[1] = " " THEN SkipSpaces(Tail(t)) ELSE t
        cleaned == StripBrackets(IF text # <<>> /\ Head(text) = "#"
                                 THEN SkipSpaces(Tail(text)) ELSE text)
        tokens == tokenize(cleaned)
    IN [cached |-> TRUE, tokens |-> tokens, bigrams |-> buildBigrams(tokens)]

\* overlapCount lines 191-200
overlapCount(a, b) ==
    IF Len(a) = 0 \/ Len(b) = 0 THEN 0 ELSE Cardinality(SetOf(a) \cap SetOf(b))

\* diceCoefficient lines 202-211
diceCoefficient(a, b) ==
    IF Len(a) = 0 \/ Len(b) = 0 THEN <<0, 1>>
    ELSE Rat(2 * Cardinality(SetOf(a) \cap SetOf(b)),
             Cardinality(SetOf(a)) + Cardinality(SetOf(b)))

\* f1Score lines 213-216
f1Score(precision, recall) ==
    IF precision[1] <= 0 \/ recall[1] <= 0 THEN <<0, 1>>
    ELSE RatDiv(RatMul(<<2, 1>>, RatMul(precision, recall)), RatAdd(precision, recall))

\* cosineSimilarity lines 218-231; Math.sqrt is taken on the squares the
\* embeddings of the model have as norms
cosineSimilarity(a, b) ==
    LET len == IF Len(a) <= Len(b) THEN Len(a) ELSE Len(b)
        RECURSIVE Dot(_, _, _)
        Dot(x, y, n) == IF n = 0 THEN 0 ELSE x[n] * y[n] + Dot(x, y, n - 1)
        Sqrt(n) == CHOOSE r \in 0..n : r * r = n
        denom == Sqrt(Dot(a, a, len)) * Sqrt(Dot(b, b, len))
    IN IF len = 0 \/ denom = 0 THEN <<0, 1>> ELSE Rat(Dot(a, b, len), denom)

\* normalizeScore lines 335-340 (a fraction is never NaN or infinite)
normalizeScore(value) ==
    IF value[1] < 0 THEN <<0, 1>>
    ELSE IF RatLess(<<1, 1>>, value) THEN <<1, 1>>
    ELSE value

\* the sentences the transcripts of the model are made of
Sentences ==
    { <<"G", "o", "d", " ", "l", "o", "v", "e", "d", " ", "t", "h", "e", " ", "w", "o", "r", "l", "d", " ", "a", "n", "d", " ", "g", "i", "v", "e", "s", " ", "h", "i", "s", " ", "s", "o", "n">>,
      <<"F", "a", "i", "t", "h", " ", "h", "o", "p", "e", " ", "a", "n", "d", " ", "c", "h", "a", "r", "i", "t", "y", " ", "a", "b", "i", "d", "e">>,
      <<"B", "e", " ", "s", "t", "i", "l", "l">>,
      <<"F", "a", "i", "t", "h", ",", "h", "o", "p", "e", ",", "c", "h", "a", "r", "i", "t", "y", " ", "a", "b", "i", "d", "e">> }

\* the transcripts: up to MaxSentences sentences, each closed by a full stop
Transcripts ==
    LET RECURSIVE Join(_)
        Join(ss) ==
            IF ss = <<>> THEN <<>>
            ELSE Head(ss) \o <<".">> \o
                 (IF Len(ss) = 1 THEN <<>> ELSE <<" ">> \o Join(Tail(ss)))
    IN {Join(ss) : ss \in UNION {[1..n -> Sentences] : n \in 0..MaxSentences}}

\* the text of each verse of the corpus
VerseText(reference) ==
    CASE reference = "John 3:16" ->
           <<"F", "o", "r", " ", "G", "o", "d", " ", "s", "o", " ", "l", "o", "v", "e", "d", " ", "t", "h", "e", " ", "w", "o", "r", "l", "d", ",", " ", "t", "h", "a", "t", " ", "h", "e", " ", "g", "a", "v", "e", " ", "h", "i", "s", " ", "o", "n", "l", "y", " ", "b", "e", "g", "o", "t", "t", "e", "n", " ", "S", "o", "n">>
      [] reference = "1 Corinthians 13:13" ->
           <<"#", " ", "A", "n", "d", " ", "n", "o", "w", " ", "a", "b", "i", "d", "e", "t", "h", " ", "f", "a", "i", "t", "h", ",", " ", "h", "o", "p", "e", ",", " ", "[", "c", "h", "a", "r", "i", "t", "y", "]">>
      [] reference = "John 11:35" -> <<"J", "e", "s", "u", "s", " ", "w", "e", "p", "t", ".">>
      [] reference = "John 8:58" -> <<"I", " ", "a", "m", ".">>

\* the options a caller passes; candidateLimit is left out
OptionSets ==
    [minConfidence : {Unset, Given(<<0, 1>>), Given(<<3, 10>>)},
     maxResults : {Unset, Given(<<1, 1>>)},
     minWords : {Unset, Given(<<2, 1>>)},
     useEmbeddings : {"unset", "true", "false"}]

\* a mutant of OrDefault: no option and no default, zero
OrDefault_Zero(option, default) == <<0, 1>>

\* options?.x ?? default
OrDefault(option, default) == IF option.set THEN option.val ELSE default

\* the candidates collectCandidates can gather from the searches it issues:
\* distinct references in the order the searches returned them
HitLists ==
    {hits \in UNION {[1..n -> VerseRefs] : n \in 0..MaxCandidates} :
        \A i, j \in 1..Len(hits) : i # j => hits[i] # hits[j]}

\* the vector the feature-extraction pipeline returns for a text (unit
\* length, in tenths)
Extractor(text) ==
    IF PatternTest(<<"g", "o", "d">>, text) THEN <<10, 0>>
    ELSE IF PatternTest(<<"f", "a", "i", "t", "h">>, text) THEN <<0, 10>>
    ELSE IF PatternTest(<<"j", "e", "s", "u", "s">>, text) THEN <<6, 0 - 8>>
    ELSE <<0 - 10, 0>>

\* what analyzeTranscriptChunkOffline lines 351-364 compute from each
\* transcript of the model
PreparedTranscripts ==
    [t \in Transcripts |->
        [trimmed |-> Trim(t), wordCount |-> Len(Pieces(Trim(t), {" "})),
         windows |-> buildTextWindows(Trim(t))]]

\* getTokenDataForVerse for each verse of the corpus
CorpusTokenData == [r \in VerseRefs |-> TokenDataOf(VerseText(r))]

\* what the extractor returns for each verse of the corpus
CorpusEmbedding == [r \in VerseRefs |-> Extractor(VerseText(r))]

\* embedText lines 259-273: null (<<>>) without an extractor or when the
\* extractor throws, else the vector the extractor returned
embedText(vector, throws) ==
    IF embedder # "loaded" \/ throws THEN <<>> ELSE vector

\* analyzeTranscriptChunkOffline lines 400-421: the scores of one window
\* against one verse
WindowScore(window, verse, verseEmbedding, embeddingEnabled) ==
    LET overlap == overlapCount(window.tokens, verse.tokens)
        windowTokenCount == Cardinality(SetOf(window.tokens))
        verseTokenCount == Cardinality(SetOf(verse.tokens))
        precision == Rat(overlap, IF windowTokenCount > 1 THEN windowTokenCount ELSE 1)
        recall == Rat(overlap, IF verseTokenCount > 1 THEN verseTokenCount ELSE 1)
        f1 == f1Score(precision, recall)
        bigramScore == diceCoefficient(window.bigrams, verse.bigrams)
        lexicalScore == normalizeScore(RatAdd(RatMul(<<6, 10>>, f1),
                                              RatMul(<<4, 10>>, bigramScore)))
        semanticScore ==
            IF embeddingEnabled /\ verseEmbedding # <<>> /\ window.embedding # <<>>
            THEN normalizeScore(RatDiv(
                     RatAdd(cosineSimilarity(window.embedding, verseEmbedding), <<1, 1>>),
                     <<2, 1>>))
            ELSE <<0, 1>>
        score == IF embeddingEnabled
                 THEN normalizeScore(RatAdd(RatMul(<<7, 10>>, semanticScore),
                                            RatMul(<<3, 10>>, lexicalScore)))
                 ELSE lexicalScore
        overlapGate == overlap >= 2 \/ ~RatLess(bigramScore, <<15, 100>>)
        semanticGate == IF embeddingEnabled THEN ~RatLess(semanticScore, <<62, 100>>)
                        ELSE FALSE
    IN [overlap |-> overlap, bigramScore |-> bigramScore,
        lexicalScore |-> lexicalScore, semanticScore |-> semanticScore,
        score |-> score, gate |-> overlapGate \/ semanticGate]

\* analyzeTranscriptChunkOffline lines 393-428: the best window of a verse
RECURSIVE BestWindow(_, _, _, _, _)
BestWindow(windows, verse, verseEmbedding, embeddingEnabled, best) ==
    LET Better(ws) == IF ws.gate /\ RatLess(best.bestScore, ws.score)
                      THEN [bestScore |-> ws.score, bestPhrase |-> Head(windows).text]
                      ELSE best
    IN IF windows = <<>> THEN best
       ELSE BestWindow(Tail(windows), verse, verseEmbedding, embeddingEnabled,
                       Better(WindowScore(Head(windows), verse, verseEmbedding,
                                          embeddingEnabled)))

\* a mutant of FinalScore: no penalty for a short verse
FinalScore_NoPenalty(bestScore, verseTokens) == normalizeScore(bestScore)

\* analyzeTranscriptChunkOffline lines 430-431
FinalScore(bestScore, verseTokens) ==
    normalizeScore(RatMul(bestScore, IF Len(verseTokens) < 6 THEN <<85, 100>> ELSE <<1, 1>>))

\* a mutant of Accepts: the comparison of line 433 turned round
Accepts_Below(finalScore, minConfidence) == RatLess(finalScore, minConfidence)

\* analyzeTranscriptChunkOffline line 433: finalScore >= minConfidence
Accepts(finalScore, minConfidence) == ~RatLess(finalScore, minConfidence)

\* analyzeTranscriptChunkOffline lines 383-447: the matches, in candidate order
RECURSIVE Matches(_, _, _, _, _, _)
Matches(hits, windows, verseEmbeddings, embeddingEnabled, minConfidence, trimmed) ==
    LET Match(reference, verse, best, finalScore) ==
            IF Len(verse.tokens) # 0 /\ Accepts(finalScore, minConfidence)
            THEN <<[reference |-> reference, confidence |-> finalScore,
                    matchedPhrase |-> IF best.bestPhrase # <<>> THEN best.bestPhrase
                                      ELSE trimmed]>>
            ELSE <<>>
        Scored(reference, verse, best) ==
            Match(reference, verse, best, FinalScore(best.bestScore, verse.tokens))
        Candidate(reference, verse) ==
            Scored(reference, verse,
                   BestWindow(windows, verse, verseEmbeddings[reference], embeddingEnabled,
                              [bestScore |-> <<0, 1>>, bestPhrase |-> <<>>]))
    IN IF hits = <<>> THEN <<>>
       ELSE Candidate(Head(hits), CorpusTokenData[Head(hits)])
                \o Matches(Tail(hits), windows, verseEmbeddings, embeddingEnabled,
                           minConfidence, trimmed)

\* analyzeTranscriptChunkOffline lines 383-455: paraphrasedVerses
paraphrasedVerses(hits, windows, verseEmbeddings, embeddingEnabled, options, trimmed) ==
    LET minConfidence == OrDefault(options.minConfidence, <<6, 10>>)
        maxResults == OrDefault(options.maxResults, <<DEFAULT_MAX_RESULTS, 1>>)[1]
        Sorted(matches) ==
            StableSort(matches,
                [a, b \in SetOf(matches) |-> ~RatLess(a.confidence, b.confidence)])
        Slice(sorted) ==
            SubSeq(sorted, 1, IF Len(sorted) < maxResults THEN Len(sorted) ELSE maxResults)
    IN Slice(Sorted(Matches(hits, windows, verseEmbeddings, embeddingEnabled,
                            minConfidence, trimmed)))

\* analyzeTranscriptChunkOffline lines 366-370 after the probe, with the
\* flag left as it was
ProbeEnabled_Ignored(probe) == TRUE

\* analyzeTranscriptChunkOffline lines 366-370 after the probe:
\* if (!probe) embeddingEnabled = false
ProbeEnabled(probe) == probe

\* analyzeTranscriptChunkOffline lines 351-381, up to its first await: the
\* early returns, then either the probe of the embedder or, with
\* useEmbeddings false, the searches of collectCandidates
AnalyzeStart(transcript, options) ==
    /\ an.pc = "idle"
    /\ LET trimmed == PreparedTranscripts[transcript].trimmed
           wordCount == PreparedTranscripts[transcript].wordCount
           windows == PreparedTranscripts[transcript].windows
           minWords == OrDefault(options.minWords, <<DEFAULT_MIN_WORDS, 1>>)[1]
           call == [IdleAnalysis EXCEPT !.transcript = transcript, !.options = options]
       IN IF trimmed = <<>> \/ wordCount < minWords \/ Len(windows) = 0
          THEN an' = [call EXCEPT !.pc = "done"] /\ UNCHANGED embedder
          ELSE IF options.useEmbeddings = "false"
          THEN /\ an' = [call EXCEPT !.pc = "collect", !.windows = windows,
                                     !.queries = queries(windows)]
               /\ UNCHANGED embedder
          ELSE /\ an' = [call EXCEPT !.pc = "probe", !.windows = windows,
                                     !.embeddingEnabled = TRUE]
               /\ embedder' = "loading"
    /\ UNCHANGED <<verseTokenCache, verseEmbeddingCache>>
    /\ UNCHANGED <<idxVars, libVars, cue, apiVars, concVars, ov, gv, tw, cc, gl>>

\* getEmbedder lines 237-256 settles and analyzeTranscriptChunkOffline goes
\* on (lines 367-377): with an embedder the windows are embedded next,
\* without one the searches start
ProbeSettles(loaded) ==
    /\ an.pc = "probe"
    /\ embedder' = IF loaded THEN "loaded" ELSE "failed"
    /\ an' = [an EXCEPT !.embeddingEnabled = ProbeEnabled(loaded),
                        !.pc = IF ProbeEnabled(loaded) THEN "embedWindows" ELSE "collect",
                        !.queries = IF ProbeEnabled(loaded) THEN <<>> ELSE queries(an.windows)]
    /\ UNCHANGED <<verseTokenCache, verseEmbeddingCache>>
    /\ UNCHANGED <<idxVars, libVars, cue, apiVars, concVars, ov, gv, tw, cc, gl>>

\* analyzeTranscriptChunkOffline lines 372-378: every window is embedded
\* (the extractor works or throws), then the searches start
EmbedWindows(throws) ==
    /\ an.pc = "embedWindows"
    /\ an' = [an EXCEPT !.pc = "collect", !.queries = queries(an.windows),
                        !.windows = [i \in 1..Len(an.windows) |->
                            [an.windows[i] EXCEPT
                                !.embedding = embedText(Extractor(an.windows[i].text), throws)]]]
    /\ UNCHANGED <<embedder, verseTokenCache, verseEmbeddingCache>>
    /\ UNCHANGED <<idxVars, libVars, cue, apiVars, concVars, ov, gv, tw, cc, gl>>

\* the result of the call and the caches once every candidate is scored:
\* getTokenDataForVerse has cached the token data of every candidate
Finish(hits, verseEmbeddings) ==
    /\ an' = [an EXCEPT !.pc = "done", !.hits = hits,
                        !.result = paraphrasedVerses(hits, an.windows, verseEmbeddings,
                                       an.embeddingEnabled, an.options,
                                       PreparedTranscripts[an.transcript].trimmed)]
    /\ verseTokenCache' =
          [r \in VerseRefs |->
              IF ~verseTokenCache[r].cached /\ r \in SetOf(hits)
              THEN CorpusTokenData[r] ELSE verseTokenCache[r]]
    /\ verseEmbeddingCache' = verseEmbeddings

\* collectCandidates lines 295-333 returns (line 381); without embeddings lines 383-455
\* run to the end, with embeddings the verse embeddings are awaited
CollectReturns(hits) ==
    /\ an.pc = "collect"
    /\ IF an.embeddingEnabled
       THEN /\ an' = [an EXCEPT !.pc = "embedVerses", !.hits = hits]
            /\ UNCHANGED <<verseTokenCache, verseEmbeddingCache>>
       ELSE Finish(hits, verseEmbeddingCache)
    /\ UNCHANGED embedder
    /\ UNCHANGED <<idxVars, libVars, cue, apiVars, concVars, ov, gv, tw, cc, gl>>

\* collectCandidates line 323: a search rejects (the index build failed)
CollectRejects ==
    /\ an.pc = "collect"
    /\ an' = [an EXCEPT !.pc = "rejected"]
    /\ UNCHANGED <<embedder, verseTokenCache, verseEmbeddingCache>>
    /\ UNCHANGED <<idxVars, libVars, cue, apiVars, concVars, ov, gv, tw, cc, gl>>

\* getVerseEmbedding lines 275-293 for every candidate with tokens (lines
\* 391, 397; the
\* extractor works or throws; only an embedding that exists is cached), then
\* lines 399-455
EmbedVerses(throws) ==
    /\ an.pc = "embedVerses"
    /\ Finish(an.hits,
              [r \in VerseRefs |->
                  IF verseEmbeddingCache[r] # <<>> THEN verseEmbeddingCache[r]
                  ELSE IF r \in SetOf(an.hits) /\ Len(CorpusTokenData[r].tokens) # 0
                  THEN embedText(CorpusEmbedding[r], throws)
                  ELSE <<>>])
    /\ UNCHANGED embedder
    /\ UNCHANGED <<idxVars, libVars, cue, apiVars, concVars, ov, gv, tw, cc, gl>>

InitScore == ScoreIdle /\ IdxIdle /\ LibIdle /\ CueIdle /\ ApiIdle /\ ConcIdle /\ OvIdle /\ GvIdle /\ TwIdle /\ CcIdle /\ GlIdle

ScoreNext ==
    \/ \E transcript \in Transcripts, options \in OptionSets :
          AnalyzeStart(transcript, options)
    \/ \E loaded \in BOOLEAN : ProbeSettles(loaded)
    \/ \E throws \in BOOLEAN : EmbedWindows(throws)
    \/ \E hits \in HitLists : CollectReturns(hits)
    \/ CollectRejects
    \/ \E throws \in BOOLEAN : EmbedVerses(throws)

SpecScore == InitScore /\ [][ScoreNext]_vars

-----------------------------------------------------------------------------
(* Claims about analyzeTranscriptChunkOffline.                             *)

\* the scores of window i of the call against a verse, as the call computed
\* them
CallScore(i, reference) ==
    WindowScore(an.windows[i], CorpusTokenData[reference],
                verseEmbeddingCache[reference], an.embeddingEnabled)

\* C4: a candidate verse that for every window has zero shared tokens, bigram
\* Dice below 0.15 and (when semantic scoring is enabled) a semantic score
\* below 0.62 never appears in paraphrasedVerses, whatever minConfidence is.
C4_GateNecessity ==
    an.pc = "done" =>
        \A m \in 1..Len(an.result) :
            \E i \in 1..Len(an.windows) :
                LET ws == CallScore(i, an.result[m].reference)
                IN \/ ws.overlap # 0
                   \/ ~RatLess(ws.bigramScore, <<15, 100>>)
                   \/ an.embeddingEnabled /\ ~RatLess(ws.semanticScore, <<62, 100>>)

\* C10: when the embedding backend cannot be loaded, a call with
\* useEmbeddings unset or true returns exactly what the same call with
\* useEmbeddings = false returns: every confidence is the best lexical score
\* among the windows that pass the overlap gate (times the length penalty).
C10_LexicalFallback ==
    an.pc = "done" /\ embedder = "failed" /\ an.options.useEmbeddings # "false" =>
        /\ an.result = paraphrasedVerses(an.hits,
                           [i \in 1..Len(an.windows) |->
                               [an.windows[i] EXCEPT !.embedding = <<>>]],
                           [r \in VerseRefs |-> <<>>], FALSE, an.options,
                           PreparedTranscripts[an.transcript].trimmed)
        /\ \A m \in 1..Len(an.result) :
              LET reference == an.result[m].reference
                  gated == {i \in 1..Len(an.windows) :
                               \/ CallScore(i, reference).overlap >= 2
                               \/ ~RatLess(CallScore(i, reference).bigramScore, <<15, 100>>)}
                  best == IF gated = {} THEN <<0, 1>>
                          ELSE CallScore(CHOOSE i \in gated : \A j \in gated :
                                   ~RatLess(CallScore(i, reference).lexicalScore,
                                          CallScore(j, reference).lexicalScore),
                                   reference).lexicalScore
              IN an.result[m].confidence =
                     FinalScore(best, CorpusTokenData[reference].tokens)

\* without a backend, a call that asked for embeddings still returns the
\* verse its transcript paraphrases, at the default threshold
C10_Witness ==
    /\ an.pc = "done"
    /\ embedder = "failed"
    /\ an.options.useEmbeddings = "unset"
    /\ an.options.minConfidence = Unset
    /\ Len(an.result) = 1
    /\ an.result[1].reference = "John 3:16"


\* the references of a list of matches
ReferencesOf(list) == {list[m].reference : m \in 1..Len(list)}

\* what the call of the state would return under another minConfidence
WithMinConfidence(m) ==
    paraphrasedVerses(an.hits, an.windows, verseEmbeddingCache, an.embeddingEnabled,
                      [an.options EXCEPT !.minConfidence = Given(m)],
                      PreparedTranscripts[an.transcript].trimmed)

\* C14: for the same transcript, candidates, backend state and other
\* options, the references returned under a threshold m2 are among those
\* returned under any threshold m1 <= m2, truncation to maxResults included:
\* the list the call returned is compared with the lists of other thresholds.
C14_ThresholdMonotone ==
    an.pc = "done" /\ an.hits # <<>> =>
        LET own == IF an.options.minConfidence.set
                   THEN an.options.minConfidence.val ELSE <<6, 10>>
        IN \A m \in {<<1, 10>>, <<65, 100>>} :
               IF RatLess(m, own)
               THEN ReferencesOf(an.result) \subseteq ReferencesOf(WithMinConfidence(m))
               ELSE ReferencesOf(WithMinConfidence(m)) \subseteq ReferencesOf(an.result)

\* a call under the threshold 0 returned two candidates of which the
\* threshold 0.65 keeps one
C14_Witness ==
    /\ an.pc = "done"
    /\ an.options.minConfidence = Given(<<0, 1>>)
    /\ an.options.maxResults = Unset
    /\ Len(an.result) = 2
    /\ Len(WithMinConfidence(<<65, 100>>)) = 1

\* the transcript returns early by lines 352-364: empty, fewer than minWords
\* words, or no window
Short(transcript, options) ==
    \/ Trim(transcript) = <<>>
    \/ Len(Pieces(Trim(transcript), {" "})) <
          (IF options.minWords.set THEN options.minWords.val[1] ELSE 4)
    \/ buildTextWindows(Trim(transcript)) = <<>>

\* C15: a call whose transcript is empty, has fewer than minWords words or
\* yields no window ends at once with an empty list: no search is prepared
\* or issued, the embedder is not loaded, no cache and no index state changes.
C15_EarlyReturnFrame ==
    [][(an.pc = "idle" /\ an'.pc # "idle" /\ Short(an'.transcript, an'.options)) =>
          /\ an'.pc = "done"
          /\ an'.result = <<>> /\ an'.hits = <<>> /\ an'.queries = <<>>
          /\ UNCHANGED <<embedder, verseTokenCache, verseEmbeddingCache, idxVars>>]_vars

\* a call with a two-word transcript of four tokens has returned early under
\* the default minWords
C15_Witness ==
    /\ an.pc = "done"
    /\ an.options.minWords = Unset
    /\ Len(Pieces(Trim(an.transcript), {" "})) = 2
    /\ Len(PreparedTranscripts[an.transcript].windows) > 0
    /\ an.result = <<>>
    /\ embedder = "unloaded"

\* the penalized best score of a candidate with tokens: the best score among
\* the windows that pass a gate, times the length penalty
PenalizedBest(reference) ==
    LET gated == {i \in 1..Len(an.windows) : CallScore(i, reference).gate}
        scores == {CallScore(i, reference).score : i \in gated} \cup {<<0, 1>>}
        best == CHOOSE x \in scores : \A y \in scores : ~RatLess(x, y)
    IN FinalScore(best, CorpusTokenData[reference].tokens)

\* C16: the list returned consists of the maxResults highest-confidence
\* accepted candidates in order of non-increasing confidence, a scored
\* candidate being accepted exactly when its penalized best score is at least
\* minConfidence: no reference twice, every confidence in [0,1] and at least
\* minConfidence, no accepted candidate left out above a returned one.
C16_TopRanked ==
    an.pc = "done" =>
        LET minConfidence == IF an.options.minConfidence.set
                             THEN an.options.minConfidence.val ELSE <<6, 10>>
            maxResults == IF an.options.maxResults.set
                          THEN an.options.maxResults.val[1] ELSE 3
            scored == {h \in SetOf(an.hits) : Len(CorpusTokenData[h].tokens) > 0}
            confidence == [h \in scored |-> PenalizedBest(h)]
            accepted == {h \in scored : ~RatLess(confidence[h], minConfidence)}
            n == Len(an.result)
        IN /\ n = IF Cardinality(accepted) < maxResults
                  THEN Cardinality(accepted) ELSE maxResults
           /\ ReferencesOf(an.result) \subseteq accepted
           /\ \A i, j \in 1..n : i # j => an.result[i].reference # an.result[j].reference
           /\ \A i \in 1..n :
                 /\ an.result[i].confidence = confidence[an.result[i].reference]
                 /\ ~RatLess(an.result[i].confidence, <<0, 1>>)
                 /\ ~RatLess(<<1, 1>>, an.result[i].confidence)
                 /\ ~RatLess(an.result[i].confidence, minConfidence)
           /\ \A i, j \in 1..n : i < j =>
                 ~RatLess(an.result[i].confidence, an.result[j].confidence)
           /\ \A h \in accepted \ ReferencesOf(an.result) : \A i \in 1..n :
                 ~RatLess(an.result[i].confidence, confidence[h])

\* of two accepted candidates the second found scored higher and is the one
\* returned under maxResults = 1
C16_Witness ==
    /\ an.pc = "done"
    /\ Len(an.hits) = 2
    /\ an.options.maxResults = Given(<<1, 1>>)
    /\ Len(WithMinConfidence(<<0, 1>>)) = 1
    /\ Len(an.result) = 1
    /\ an.result[1].reference = an.hits[2]
    /\ RatLess(PenalizedBest(an.hits[1]), PenalizedBest(an.hits[2]))
    /\ ~RatLess(PenalizedBest(an.hits[1]), OrDefault(an.options.minConfidence, <<6, 10>>))

\* C20: when the searches are prepared, every window with a token has its
\* most-frequent-tokens query among the queries in exact mode (suggest
\* false), also when that query and the longest-tokens query are one string.
C20_ExactModeKept ==
    an.pc = "collect" =>
        \A i \in 1..Len(an.windows) :
            Len(an.windows[i].tokens) > 0 =>
                \E q \in 1..Len(an.queries) :
                    /\ an.queries[q].query = buildKeywordQuery(an.windows[i].tokens)
                    /\ ~an.queries[q].suggest

-----------------------------------------------------------------------------
(* Transcription overlap: normalizeOverlapText and                         *)
(* extractNewTranscriptionText (transcriptionOverlap.ts).                  *)

\* the words the texts of the model are made of: case and punctuation
\* variants, a word of punctuation only, a word of 21 characters once
\* normalized
OverlapWords ==
    { <<"J", "e", "s", "u", "s">>, <<"j", "e", "s", "u", "s", ",">>,
      <<"n", "a", "m", "e", ".">>, <<"-">>, <<"A", "m", "e", "n">>,
      <<"r", "i", "g", "h", "t", "e", "o", "u", "s", "n", "e", "s", "s", "-", "a", "n", "d", "-", "p", "e", "a", "c", "e">> }

\* the texts of up to n words, single spaces between the words
OverlapTexts(n) ==
    {JoinSpace(ws) : ws \in UNION {[1..m -> OverlapWords] : m \in 0..n}}

\* normalizeOverlapText lines 15-21: lower case, every character outside
\* [a-z0-9'] and white space removed, white space collapsed, trimmed
normalizeOverlapText(text) ==
    LET Kept(c) ==
            \/ \E i \in 1..Len(LowerCaseLetters) : LowerCaseLetters[i] = c
            \/ c \in {"0", "1", "2", "3", "4", "5", "6", "7", "8", "9", "'", " "}
    IN JoinSpace(Pieces(SelectSeq(ToLowerCase(text), Kept), {" "}))

\* extractNewTranscriptionText lines 32-104; x.split(/\s+/) of a trimmed,
\* non-empty x is Pieces(x, {" "}), and slice(n) past the end is empty
extractNewTranscriptionText(lastTranscriptionText, newText) ==
    LET lastTrimmed == Trim(lastTranscriptionText)
        newTrimmed == Trim(newText)
        lastNormalized == normalizeOverlapText(lastTrimmed)
        newNormalized == normalizeOverlapText(newTrimmed)
        lastWords == Pieces(lastNormalized, {" "})
        newWords == Pieces(newNormalized, {" "})
        Min(a, b) == IF a < b THEN a ELSE b
        Greatest(set) == IF set = {} THEN 0 ELSE CHOOSE i \in set : \A j \in set : j <= i
        Slice(words, n) == Trim(JoinSpace(SubSeq(words, n + 1, Len(words))))
        \* lines 60-67
        maxOverlapWords ==
            Greatest({i \in 2..Min(Len(lastWords), Len(newWords)) :
                         SubSeq(lastWords, Len(lastWords) - i + 1, Len(lastWords))
                             = SubSeq(newWords, 1, i)})
        \* lines 78-85
        maxOverlapLength ==
            Greatest({i \in 20..Min(Len(lastNormalized), Len(newNormalized)) :
                         SubSeq(lastNormalized, Len(lastNormalized) - i + 1,
                                Len(lastNormalized)) = SubSeq(newNormalized, 1, i)})
        \* lines 88-99
        words == Pieces(newTrimmed, {" "})
        WordLength(i) == IF normalizeOverlapText(words[i]) = <<>> THEN 0
                         ELSE Len(normalizeOverlapText(words[i])) + 1
        RECURSIVE CharCount(_)
        CharCount(i) == IF i = 0 THEN 0 ELSE CharCount(i - 1) + WordLength(i)
        stops == {i \in 1..Len(words) :
                     WordLength(i) > 0 /\ CharCount(i - 1) + WordLength(i) > maxOverlapLength}
        wordIndex == IF stops = {} THEN Len(words)
                     ELSE (CHOOSE i \in stops : \A j \in stops : i <= j) - 1
    IN IF lastTrimmed = <<>> \/ newTrimmed = <<>> THEN newText
       ELSE IF lastNormalized = <<>> \/ newNormalized = <<>> THEN newText
       ELSE IF maxOverlapWords > 0 THEN Slice(words, maxOverlapWords)
       ELSE IF maxOverlapLength > 0 THEN Slice(words, wordIndex)
       ELSE newText

\* the call extractNewTranscriptionText(ov.last, ov.new)
ExtractNewTranscriptionText ==
    /\ ~ov.called
    /\ ov' = [ov EXCEPT !.called = TRUE,
                        !.out = extractNewTranscriptionText(ov.last, ov.new)]
    /\ UNCHANGED <<idxVars, libVars, cue, apiVars, scoreVars, concVars, gv, tw, cc, gl>>

InitOverlap ==
    /\ ov \in [last : OverlapTexts(MaxOverlapWords - 1), new : OverlapTexts(MaxOverlapWords),
                called : {FALSE}, out : {<<>>}]
    /\ IdxIdle /\ LibIdle /\ CueIdle /\ ApiIdle /\ ScoreIdle /\ ConcIdle /\ GvIdle /\ TwIdle /\ CcIdle /\ GlIdle

SpecOverlap == InitOverlap /\ [][ExtractNewTranscriptionText]_vars

\* C18: when some run of k >= 2 normalized words is both a suffix of last
\* and a prefix of new, the text returned is, once normalized, the normalized
\* words of new after the first k of them, k the longest such run (empty when
\* all of new is overlap), whatever the case and punctuation of the texts.
C18_LongestOverlapRemoved ==
    ov.called =>
        LET lastWords == Pieces(normalizeOverlapText(ov.last), {" "})
            newWords == Pieces(normalizeOverlapText(ov.new), {" "})
            runs == {k \in 2..Len(newWords) :
                        /\ k <= Len(lastWords)
                        /\ \A i \in 1..k : lastWords[Len(lastWords) - k + i] = newWords[i]}
        IN runs # {} =>
               normalizeOverlapText(ov.out) =
                   JoinSpace(SubSeq(newWords,
                                    (CHOOSE k \in runs : \A j \in runs : j <= k) + 1,
                                    Len(newWords)))

\* C26: without a run of two or more overlapping words, when the normalized
\* last text ends with the first n >= 20 characters of the normalized new
\* text (n the greatest such), the text returned is, once normalized, the
\* words of new from the first one that does not lie wholly inside those n
\* characters.
C26_CharacterFallbackRemainder ==
    ov.called =>
        LET lastNormalized == normalizeOverlapText(ov.last)
            newNormalized == normalizeOverlapText(ov.new)
            lastWords == Pieces(lastNormalized, {" "})
            newWords == Pieces(newNormalized, {" "})
            runs == {k \in 2..Len(newWords) :
                        /\ k <= Len(lastWords)
                        /\ \A i \in 1..k : lastWords[Len(lastWords) - k + i] = newWords[i]}
            overlaps == {n \in 20..Len(newNormalized) :
                            /\ n <= Len(lastNormalized)
                            /\ \A i \in 1..n :
                                  lastNormalized[Len(lastNormalized) - n + i] = newNormalized[i]}
            n == CHOOSE m \in overlaps : \A l \in overlaps : l <= m
            \* the position of the last character of word k in newNormalized
            RECURSIVE EndOf(_)
            EndOf(k) == IF k = 0 THEN 0 - 1 ELSE EndOf(k - 1) + 1 + Len(newWords[k])
            covered == Cardinality({k \in 1..Len(newWords) : EndOf(k) <= n})
        IN (runs = {} /\ overlaps # {}) =>
               normalizeOverlapText(ov.out) =
                   JoinSpace(SubSeq(newWords, covered + 1, Len(newWords)))

-----------------------------------------------------------------------------
(* Reference lookup: parseOsisRef, getVerseText and getVersesForReference  *)
(* (bibleService.ts).                                                      *)

\* the decimal digits of a number below 100, as `${n}` writes them
Digits(n) ==
    LET digit == <<"0", "1", "2", "3", "4", "5", "6", "7", "8", "9">>
    IN IF n < 10 THEN <<digit[n + 1]>> ELSE <<digit[(n \div 10) + 1], digit[(n % 10) + 1]>>

\* parseInt(text, 10) of a text of digits
RECURSIVE ParseInt(_)
ParseInt(text) ==
    IF text = <<>> THEN 0
    ELSE 10 * ParseInt(SubSeq(text, 1, Len(text) - 1))
         + (CHOOSE d \in 0..9 : Digits(d) = <<text[Len(text)]>>)

\* osisBookToFullName lines 177-179 with OSIS_TO_BOOK_NAME lines 46-113
osisBookToFullName(osisBook) ==
    IF osisBook = <<"G", "e", "n">> THEN <<"G", "e", "n", "e", "s", "i", "s">>
    ELSE IF osisBook = <<"J", "o", "h", "n">> THEN <<"J", "o", "h", "n">>
    ELSE osisBook

\* the verseIndex of each translation: the NIV of the model has no John 3:17
VerseIndexOf(id) ==
    LET kjv == {[key |-> <<"J", "o", "h", "n", " ", "3", ":", "1", "5">>, text |-> <<"T", "h", "a", "t", " ", "w", "h", "o", "s", "o", "e", "v", "e", "r", " ", "b", "e", "l", "i", "e", "v", "e", "t", "h">>],
                [key |-> <<"J", "o", "h", "n", " ", "3", ":", "1", "6">>, text |-> <<"#", " ", "F", "o", "r", " ", "G", "o", "d", " ", "s", "o", " ", "l", "o", "v", "e", "d">>],
                [key |-> <<"J", "o", "h", "n", " ", "3", ":", "1", "7">>, text |-> <<"F", "o", "r", " ", "G", "o", "d", " ", "s", "e", "n", "t", " ", "n", "o", "t">>],
                [key |-> <<"J", "o", "h", "n", " ", "3", ":", "1", "8">>, text |-> <<"H", "e", " ", "t", "h", "a", "t", " ", "b", "e", "l", "i", "e", "v", "e", "t", "h">>],
                [key |-> <<"J", "o", "h", "n", " ", "4", ":", "1", "5">>, text |-> <<"S", "i", "r", ",", " ", "g", "i", "v", "e", " ", "m", "e">>],
                [key |-> <<"G", "e", "n", "e", "s", "i", "s", " ", "3", ":", "1", "5">>, text |-> <<"A", "n", "d", " ", "I", " ", "[", "w", "i", "l", "l", "]", " ", "p", "u", "t">>],
                [key |-> <<"G", "e", "n", "e", "s", "i", "s", " ", "3", ":", "1", "6">>, text |-> <<"U", "n", "t", "o", " ", "t", "h", "e", " ", "w", "o", "m", "a", "n">>]}
        niv == {[key |-> <<"J", "o", "h", "n", " ", "3", ":", "1", "5">>, text |-> <<"t", "h", "a", "t", " ", "e", "v", "e", "r", "y", "o", "n", "e">>],
                [key |-> <<"J", "o", "h", "n", " ", "3", ":", "1", "6">>, text |-> <<"F", "o", "r", " ", "G", "o", "d", " ", "s", "o", " ", "l", "o", "v", "e", "d">>],
                [key |-> <<"J", "o", "h", "n", " ", "3", ":", "1", "8">>, text |-> <<"W", "h", "o", "e", "v", "e", "r", " ", "b", "e", "l", "i", "e", "v", "e", "s">>],
                [key |-> <<"G", "e", "n", "e", "s", "i", "s", " ", "3", ":", "1", "5">>, text |-> <<"A", "n", "d", " ", "I", " ", "w", "i", "l", "l", " ", "p", "u", "t">>]}
    IN IF id = "niv" THEN niv ELSE kjv

\* parseOsisRef lines 185-230; parts that are undefined are <<>> (endBook)
\* and -1 (endChapter, endVerse)
parseOsisRef(osis) ==
    LET rangeParts == Pieces(osis, {"-"})
        startParts == Pieces(rangeParts[1], {"."})
        endParts == Pieces(rangeParts[2], {"."})
        startBook == startParts[1]
        startChapter == ParseInt(startParts[2])
        startVerse == ParseInt(startParts[3])
        hasEnd == Len(rangeParts) > 1
        endBook == IF hasEnd THEN endParts[1] ELSE <<>>
        endChapter == IF hasEnd THEN ParseInt(endParts[2]) ELSE 0 - 1
        endVerse == IF hasEnd THEN ParseInt(endParts[3]) ELSE 0 - 1
        start == osisBookToFullName(startBook) \o <<" ">> \o Digits(startChapter)
                     \o <<":">> \o Digits(startVerse)
        displayRef ==
            IF ~hasEnd THEN start
            ELSE IF endBook # <<>> /\ endBook # startBook
            THEN start \o <<" ", "-", " ">> \o osisBookToFullName(endBook) \o <<" ">>
                     \o Digits(endChapter) \o <<":">> \o Digits(endVerse)
            ELSE IF endChapter # startChapter
            THEN start \o <<"-">> \o Digits(endChapter) \o <<":">> \o Digits(endVerse)
            ELSE start \o <<"-">> \o Digits(endVerse)
    IN [osis |-> osis, startBook |-> startBook, startChapter |-> startChapter,
        startVerse |-> startVerse, endBook |-> endBook, endChapter |-> endChapter,
        endVerse |-> endVerse, displayRef |-> displayRef]

\* a mutant of getVerseText: no verse is found
getVerseText_Null(verses, bookName, chapter, verse) == <<>>

\* getVerseText lines 271-290: null (<<>>) for a verse the index does not
\* hold, else its text without the leading "#" and without the brackets
getVerseText(verses, bookName, chapter, verse) ==
    LET key == bookName \o <<" ">> \o Digits(chapter) \o <<":">> \o Digits(verse)
        found == {e \in verses : e.key = key}
        text == (CHOOSE e \in found : TRUE).text
        RECURSIVE SkipSpaces(_)
        SkipSpaces(t) == IF t # <<>> /\ t[1] = " " THEN SkipSpaces(Tail(t)) ELSE t
        RECURSIVE StripBrackets(_)
        StripBrackets(t) ==
            LET Closes(p, k) == t[k] = "]" /\ \A j \in (p + 1)..(k - 1) : t[j] # "]"
                opens == {p \in 1..Len(t) :
                             t[p] = "[" /\ \E k \in (p + 2)..Len(t) : Closes(p, k)}
            IN IF opens = {} THEN t
               ELSE LET p == CHOOSE p \in opens : \A q \in opens : p <= q
                        k == CHOOSE k \in (p + 2)..Len(t) : Closes(p, k)
                    IN SubSeq(t, 1, p - 1) \o SubSeq(t, p + 1, k - 1)
                           \o StripBrackets(SubSeq(t, k + 1, Len(t)))
    IN IF found = {} THEN <<>>
       ELSE StripBrackets(IF Head(text) = "#" THEN SkipSpaces(Tail(text)) ELSE text)

\* getVersesForReference lines 300-352 on the verses loadVerses returned
getVersesForReference(reference, verses) ==
    LET startBook == osisBookToFullName(reference.startBook)
        startChapter == reference.startChapter
        startVerse == reference.startVerse
        endVerse == IF reference.endVerse # 0 - 1 THEN reference.endVerse ELSE startVerse
        endChapter == IF reference.endChapter # 0 - 1 THEN reference.endChapter
                      ELSE startChapter
        endBook == IF reference.endBook # <<>> THEN osisBookToFullName(reference.endBook)
                   ELSE startBook
        Entry(v) ==
            IF getVerseText(verses, startBook, startChapter, v) = <<>> THEN <<>>
            ELSE <<[verse |-> v, chapter |-> startChapter, book |-> startBook,
                    text |-> getVerseText(verses, startBook, startChapter, v),
                    displayRef |-> startBook \o <<" ">> \o Digits(startChapter)
                                       \o <<":">> \o Digits(v)]>>
        RECURSIVE Loop(_)
        Loop(v) == IF v <= endVerse THEN Entry(v) \o Loop(v + 1) ELSE <<>>
    IN IF startBook = endBook /\ startChapter = endChapter THEN Loop(startVerse)
       ELSE Entry(startVerse)

\* the OSIS string the reference parser writes for a reference
OsisOf(input) ==
    LET Bcv(book, chapter, verse) ==
            (IF book = "Gen" THEN <<"G", "e", "n">> ELSE <<"J", "o", "h", "n">>)
                \o <<".">> \o Digits(chapter) \o <<".">> \o Digits(verse)
    IN Bcv(input.book, input.chapter, input.verse)
           \o (IF input.hasEnd
               THEN <<"-">> \o Bcv(input.endBook, input.endChapter, input.endVerse)
               ELSE <<>>)

\* the references of the model: chapters 3 and 4, verses 15 to MaxVerse
References ==
    LET all == [book : {"John", "Gen"}, chapter : {3, 4}, verse : 15..(MaxVerse - 1),
                hasEnd : BOOLEAN, endBook : {"John", "Gen"}, endChapter : {3, 4},
                endVerse : 15..MaxVerse]
    IN {r \in all : r.hasEnd \/ (r.endBook = "John" /\ r.endChapter = 3 /\ r.endVerse = 15)}

\* the call getVersesForReference(parseOsisRef(osis), translationId), from
\* the call to its result; loadVerses (line 299) throws without a translation
GetVersesForReference ==
    /\ gv.pc = "idle"
    /\ LET used == LoadVersesResult(gv.translationId)
       IN /\ versesCache' = LoadVersesCache(gv.translationId)
          /\ gv' = IF used = "none" THEN [gv EXCEPT !.pc = "rejected"]
                   ELSE [gv EXCEPT !.pc = "done", !.used = used,
                                   !.result = getVersesForReference(parseOsisRef(gv.osis),
                                                                    VerseIndexOf(used))]
    /\ UNCHANGED <<searchIndexMap, verseMapByTranslation, indexedTranslations,
                   indexPromises, build, nextBuild, caller, resetCalled, installed>>
    /\ UNCHANGED <<libVars, cue, apiVars, scoreVars, concVars, ov, tw, cc, gl>>

InitVerses ==
    /\ gv \in {[pc |-> "idle", input |-> r, osis |-> OsisOf(r), translationId |-> t,
                 used |-> "none", result |-> <<>>] :
                    r \in References, t \in TranslationIds}
    /\ IdxInit /\ LibIdle /\ CueIdle /\ ApiIdle /\ ScoreIdle /\ ConcIdle /\ OvIdle /\ TwIdle /\ CcIdle /\ GlIdle

SpecVerses == InitVerses /\ [][GetVersesForReference]_vars

\* C19: for a reference whose start and end lie in one book and chapter the
\* result holds exactly the verses numbered start..end that the translation
\* has, one entry each in ascending order; for a reference that ends in
\* another chapter or book it holds at most one entry, the start verse.
C19_RangeExpansion ==
    gv.pc = "done" =>
        LET in == gv.input
            book == IF in.book = "Gen" THEN <<"G", "e", "n", "e", "s", "i", "s">> ELSE <<"J", "o", "h", "n">>
            Has(v) == \E e \in VerseIndexOf(gv.used) :
                          e.key = book \o <<" ">> \o Digits(in.chapter) \o <<":">> \o Digits(v)
            last == IF in.hasEnd THEN in.endVerse ELSE in.verse
            existing == {v \in in.verse..last : Has(v)}
            n == Len(gv.result)
        IN /\ \A i \in 1..n : gv.result[i].book = book /\ gv.result[i].chapter = in.chapter
           /\ IF ~in.hasEnd \/ (in.endBook = in.book /\ in.endChapter = in.chapter)
              THEN /\ {gv.result[i].verse : i \in 1..n} = existing
                   /\ n = Cardinality(existing)
                   /\ \A i, j \in 1..n : i < j => gv.result[i].verse < gv.result[j].verse
              ELSE /\ n <= 1
                   /\ n = 1 => gv.result[1].verse = in.verse

\* the NIV of the model has returned John 3:15, 3:16 and 3:18 for the range
\* John 3:15-18
C19_Witness ==
    /\ gv.pc = "done"
    /\ gv.used = "niv"
    /\ gv.input.hasEnd /\ gv.input.verse = 15 /\ gv.input.endVerse = 18
    /\ Len(gv.result) = 3
    /\ gv.result[3].verse = 18

-----------------------------------------------------------------------------
(* Concurrent analyzeTranscriptChunkOffline calls sharing the embedder, the *)
(* caches and the in-flight embeddings (lines 41-46, 233-293, 342-456).     *)

\* the transcripts of the concurrent calls
ConcTranscripts ==
    {<<"G", "o", "d", " ", "l", "o", "v", "e", "d", " ", "t", "h", "e", " ", "w", "o", "r", "l", "d", " ", "a", "n", "d", " ", "g", "i", "v", "e", "s", " ", "h", "i", "s", " ", "s", "o", "n", ".">>,
     <<"B", "e", " ", "s", "t", "i", "l", "l", ".">>}

\* the options of the concurrent calls
ConcOptions == {o \in OptionSets : /\ o.minConfidence = Given(<<0, 1>>)
                                   /\ o.maxResults = Unset /\ o.minWords = Unset
                                   /\ o.useEmbeddings \in {"unset", "false"}}

\* the candidates the searches of the concurrent calls return
ConcHitLists ==
    {<<"John 3:16", "John 11:35">>, <<"John 8:58", "John 3:16">>}

\* a mutant of LoadNeeded: a failed load is started again
LoadNeeded_Retry(state) == state \in {"unloaded", "failed"}

\* getEmbedder lines 234-235: the load starts only without an embedder and
\* without an embedderPromise
LoadNeeded(state) == state = "unloaded"

\* a mutant of InFlight: the pending computation is not found
InFlight_Missed(inFlight, reference) == 0

\* getVerseEmbedding lines 279-280: embeddingInFlight.get(reference)
InFlight(inFlight, reference) == inFlight[reference]

\* a mutant of CachedEmbedding: an entry is read as the opposite vector
CachedEmbedding_Stale(cache, reference) ==
    [i \in 1..Len(cache[reference]) |-> 0 - cache[reference][i]]

\* getVerseEmbedding lines 276-277: verseEmbeddingCache.get(reference)
CachedEmbedding(cache, reference) == cache[reference]

\* a mutant of CacheEmbedding: the cache is replaced by one with the new entry
CacheEmbedding_Fresh(cache, reference, value) ==
    [r \in VerseRefs |-> IF r = reference THEN value ELSE <<>>]

\* getVerseEmbedding lines 284-286: if (embedding) verseEmbeddingCache.set
CacheEmbedding(cache, reference, value) ==
    IF value # <<>> THEN [cache EXCEPT ![reference] = value] ELSE cache

\* the loop of lines 386-397 from candidate `from`: the index of the next
\* candidate with tokens, Len(hits) + 1 when there is none
RECURSIVE NextCandidate(_, _)
NextCandidate(hits, from) ==
    IF from > Len(hits) THEN from
    ELSE IF Len(CorpusTokenData[hits[from]].tokens) = 0 THEN NextCandidate(hits, from + 1)
    ELSE from

\* lines 386-455 from candidate `from` to the next await or to the return:
\* getTokenDataForVerse caches the token data of every candidate reached;
\* without embeddings nothing is awaited; with embeddings the next candidate
\* with tokens calls getVerseEmbedding (lines 275-293) and the call awaits
\* the cached vector (wait = 0), the pending computation or a new one
Continue(c, call, from) ==
    LET hits == call.hits
        k == IF call.embeddingEnabled THEN NextCandidate(hits, from) ELSE Len(hits) + 1
        reached == {hits[i] : i \in {j \in from..Len(hits) : j <= k}}
        reference == hits[k]
        Awaits(e) == [call EXCEPT !.pc = "verse", !.k = k, !.wait = e]
        free == {e \in 1..MaxEmbeddings : embedding[e].state = "unused"}
        Starts(e) ==
            /\ calls' = [calls EXCEPT ![c] = Awaits(e)]
            /\ embedding' = [embedding EXCEPT ![e] = [state |-> "running", ref |-> reference,
                                                      value |-> <<>>]]
            /\ embeddingInFlight' = [embeddingInFlight EXCEPT ![reference] = e]
    IN /\ verseTokenCache' =
              [r \in VerseRefs |->
                  IF ~verseTokenCache[r].cached /\ r \in reached
                  THEN CorpusTokenData[r] ELSE verseTokenCache[r]]
       /\ IF k > Len(hits)
          THEN /\ calls' = [calls EXCEPT ![c] =
                      [call EXCEPT !.pc = "done", !.k = k,
                          !.result = paraphrasedVerses(hits, call.windows,
                                         call.verseEmbeddings, call.embeddingEnabled,
                                         call.options,
                                         PreparedTranscripts[call.transcript].trimmed)]]
               /\ UNCHANGED <<embedding, embeddingInFlight>>
          ELSE IF CachedEmbedding(verseEmbeddingCache, reference) # <<>>
          THEN /\ calls' = [calls EXCEPT ![c] =
                      [Awaits(0) EXCEPT !.verseEmbeddings[reference] =
                          CachedEmbedding(verseEmbeddingCache, reference)]]
               /\ UNCHANGED <<embedding, embeddingInFlight>>
          ELSE IF InFlight(embeddingInFlight, reference) # 0
          THEN /\ calls' = [calls EXCEPT ![c] =
                                Awaits(InFlight(embeddingInFlight, reference))]
               /\ UNCHANGED <<embedding, embeddingInFlight>>
          ELSE /\ free # {}
               /\ Starts(CHOOSE e \in free : \A f \in free : e <= f)

\* analyzeTranscriptChunkOffline lines 351-381 of the c-th call, up to its
\* first await: the early returns, then getEmbedder (lines 233-257), which
\* starts the load when it is needed, or the searches
AnalyzeCallStart(c, transcript, options) ==
    /\ calls[c].pc = "idle"
    /\ \A d \in 1..(c - 1) : calls[d].pc # "idle"
    /\ LET trimmed == PreparedTranscripts[transcript].trimmed
           wordCount == PreparedTranscripts[transcript].wordCount
           windows == PreparedTranscripts[transcript].windows
           minWords == OrDefault(options.minWords, <<DEFAULT_MIN_WORDS, 1>>)[1]
           call == [IdleCall EXCEPT !.transcript = transcript, !.options = options]
       IN IF trimmed = <<>> \/ wordCount < minWords \/ Len(windows) = 0
          THEN /\ calls' = [calls EXCEPT ![c] = [call EXCEPT !.pc = "done"]]
               /\ UNCHANGED <<embedder, embedderLoads>>
          ELSE IF options.useEmbeddings = "false"
          THEN /\ calls' = [calls EXCEPT ![c] = [call EXCEPT !.pc = "collect",
                                                            !.windows = windows]]
               /\ UNCHANGED <<embedder, embedderLoads>>
          ELSE /\ calls' = [calls EXCEPT ![c] = [call EXCEPT !.pc = "probe",
                                                            !.windows = windows,
                                                            !.embeddingEnabled = TRUE]]
               /\ IF LoadNeeded(embedder)
                  THEN embedder' = "loading" /\ embedderLoads' = embedderLoads + 1
                  ELSE UNCHANGED <<embedder, embedderLoads>>
    /\ UNCHANGED <<an, verseTokenCache, verseEmbeddingCache, embeddingInFlight, embedding,
                   extractor>>
    /\ UNCHANGED <<idxVars, libVars, cue, apiVars, ov, gv, tw, cc, gl>>

\* getEmbedder lines 237-256: the load ends with the extractor or, after the
\* catch of line 248, with null
LoadSettles(loaded) ==
    /\ embedder = "loading"
    /\ embedder' = IF loaded THEN "loaded" ELSE "failed"
    /\ UNCHANGED <<an, verseTokenCache, verseEmbeddingCache>>
    /\ UNCHANGED <<idxVars, libVars, cue, apiVars, concVars, ov, gv, tw, cc, gl>>

\* analyzeTranscriptChunkOffline lines 367-370: the await of getEmbedder
\* returns to the c-th call
ProbeResumes(c) ==
    /\ calls[c].pc = "probe"
    /\ embedder \in {"loaded", "failed"}
    /\ calls' = [calls EXCEPT ![c].embeddingEnabled = ProbeEnabled(embedder = "loaded"),
                              ![c].pc = IF ProbeEnabled(embedder = "loaded")
                                        THEN "embedWindows" ELSE "collect"]
    /\ UNCHANGED <<embedderLoads, embeddingInFlight, embedding, extractor>>
    /\ UNCHANGED <<idxVars, libVars, cue, apiVars, scoreVars, ov, gv, tw, cc, gl>>

\* analyzeTranscriptChunkOffline lines 372-378 of the c-th call: every window
\* is embedded, then the searches start
WindowsEmbedded(c, throws) ==
    /\ calls[c].pc = "embedWindows"
    /\ extractor = "works" => ~throws
    /\ extractor = "throws" => throws
    /\ calls' = [calls EXCEPT ![c].pc = "collect",
                              ![c].windows = [i \in 1..Len(calls[c].windows) |->
                                  [calls[c].windows[i] EXCEPT
                                      !.embedding =
                                          embedText(Extractor(calls[c].windows[i].text),
                                                    throws)]]]
    /\ UNCHANGED <<embedderLoads, embeddingInFlight, embedding, extractor>>
    /\ UNCHANGED <<idxVars, libVars, cue, apiVars, scoreVars, ov, gv, tw, cc, gl>>

\* collectCandidates returns to the c-th call (line 381), which goes on to
\* its next await or to its return
CandidatesReturn(c, hits) ==
    /\ calls[c].pc = "collect"
    /\ Continue(c, [calls[c] EXCEPT !.hits = hits], 1)
    /\ UNCHANGED <<an, embedder, verseEmbeddingCache, embedderLoads, extractor>>
    /\ UNCHANGED <<idxVars, libVars, cue, apiVars, ov, gv, tw, cc, gl>>

\* collectCandidates line 323: a search of the c-th call rejects
CandidatesReject(c) ==
    /\ calls[c].pc = "collect"
    /\ calls' = [calls EXCEPT ![c].pc = "rejected"]
    /\ UNCHANGED <<embedderLoads, embeddingInFlight, embedding, extractor>>
    /\ UNCHANGED <<idxVars, libVars, cue, apiVars, scoreVars, ov, gv, tw, cc, gl>>

\* getVerseEmbedding lines 282-289: embedText ends (the extractor returned a
\* vector or threw), a vector is cached and the in-flight entry is deleted
VerseEmbeddingSettles(e, throws) ==
    /\ embedding[e].state = "running"
    /\ extractor = "works" => ~throws
    /\ extractor = "throws" => throws
    /\ LET reference == embedding[e].ref
           value == embedText(CorpusEmbedding[reference], throws)
       IN /\ embedding' = [embedding EXCEPT ![e].state = "done", ![e].value = value]
          /\ verseEmbeddingCache' = CacheEmbedding(verseEmbeddingCache, reference, value)
          /\ embeddingInFlight' = [embeddingInFlight EXCEPT ![reference] = 0]
    /\ UNCHANGED <<an, embedder, verseTokenCache, calls, embedderLoads, extractor>>
    /\ UNCHANGED <<idxVars, libVars, cue, apiVars, ov, gv, tw, cc, gl>>

\* line 397: the await of getVerseEmbedding returns to the c-th call, which
\* scores the candidate and goes on
VerseResumes(c) ==
    /\ calls[c].pc = "verse"
    /\ IF calls[c].wait = 0 THEN TRUE ELSE embedding[calls[c].wait].state = "done"
    /\ Continue(c, IF calls[c].wait = 0 THEN calls[c]
                   ELSE [calls[c] EXCEPT !.verseEmbeddings[calls[c].hits[calls[c].k]] =
                                             embedding[calls[c].wait].value],
                calls[c].k + 1)
    /\ UNCHANGED <<an, embedder, verseEmbeddingCache, embedderLoads, extractor>>
    /\ UNCHANGED <<idxVars, libVars, cue, apiVars, ov, gv, tw, cc, gl>>

\* the process starts with an extractor that works, that always throws or
\* that throws now and then
InitConc ==
    /\ calls = [c \in 1..NumCalls |-> IdleCall]
    /\ embedderLoads = 0
    /\ embeddingInFlight = [r \in VerseRefs |-> 0]
    /\ embedding = [e \in 1..MaxEmbeddings |-> [state |-> "unused", ref |-> "", value |-> <<>>]]
    /\ extractor \in {"works", "throws", "flaky"}
    /\ ScoreIdle /\ IdxIdle /\ LibIdle /\ CueIdle /\ ApiIdle /\ OvIdle /\ GvIdle /\ TwIdle /\ CcIdle /\ GlIdle

ConcNext ==
    \/ \E c \in 1..NumCalls, transcript \in ConcTranscripts, options \in ConcOptions :
          AnalyzeCallStart(c, transcript, options)
    \/ \E loaded \in BOOLEAN : LoadSettles(loaded)
    \/ \E c \in 1..NumCalls : ProbeResumes(c)
    \/ \E c \in 1..NumCalls, throws \in BOOLEAN : WindowsEmbedded(c, throws)
    \/ \E c \in 1..NumCalls, hits \in ConcHitLists : CandidatesReturn(c, hits)
    \/ \E c \in 1..NumCalls : CandidatesReject(c)
    \/ \E e \in 1..MaxEmbeddings, throws \in BOOLEAN : VerseEmbeddingSettles(e, throws)
    \/ \E c \in 1..NumCalls : VerseResumes(c)

SpecConc == InitConc /\ [][ConcNext]_vars

-----------------------------------------------------------------------------
(* Claims about concurrent analyzeTranscriptChunkOffline calls.            *)

\* the calls that have left the probe of the embedder behind
PastProbe(c) == calls[c].pc \in {"embedWindows", "collect", "verse", "done", "rejected"}

\* C11: the load of the embedding model is started at most once, whatever
\* the number and interleaving of calls; once it has failed it stays failed,
\* every call that has passed the probe runs without embeddings, and a call
\* that awaits the load goes on to its windows or its searches: it neither
\* rejects nor returns there.
C11_SingleLoad ==
    /\ [](/\ embedderLoads <= 1
          /\ embedder = "unloaded" <=> embedderLoads = 0
          /\ embedder = "failed" =>
                \A c \in 1..NumCalls :
                    /\ calls[c].pc \notin {"embedWindows", "verse"}
                    /\ PastProbe(c) => ~calls[c].embeddingEnabled)
    /\ [][/\ embedder = "failed" => embedder' = "failed"
          /\ \A c \in 1..NumCalls :
                (calls[c].pc = "probe" /\ calls'[c].pc # "probe") =>
                    calls'[c].pc \in {"embedWindows", "collect"}]_vars

\* the load has failed once and two calls that asked for embeddings have
\* returned matches, while a third call is past its probe
C11_Witness ==
    /\ embedder = "failed" /\ embedderLoads = 1
    /\ \A c \in {1, 2} : /\ calls[c].pc = "done"
                         /\ calls[c].options.useEmbeddings = "unset"
                         /\ calls[c].result # <<>>
    /\ calls[3].pc = "collect" /\ calls[3].options.useEmbeddings = "unset"

\* the computations of a reference that are running
Running(r) == {e \in 1..MaxEmbeddings : embedding[e].state = "running" /\ embedding[e].ref = r}

\* C12: for every reference at most one embedding computation is running;
\* the in-flight entry of the reference is that computation while it runs
\* and is absent once it has finished, with or without a vector; a
\* reference whose computation has yielded a vector is in the cache, and no
\* computation of it is started afterwards.
C12_OneComputationPerReference ==
    \A r \in VerseRefs :
        /\ Cardinality(Running(r)) <= 1
        /\ IF embeddingInFlight[r] = 0 THEN Running(r) = {}
           ELSE Running(r) = {embeddingInFlight[r]}
        /\ \A f \in 1..MaxEmbeddings :
              (embedding[f].state = "done" /\ embedding[f].ref = r
                   /\ embedding[f].value # <<>>) =>
                 /\ verseEmbeddingCache[r] # <<>>
                 /\ \A e \in (f + 1)..MaxEmbeddings :
                       embedding[e].state # "unused" => embedding[e].ref # r

\* two calls await the one running computation of John 3:16, after an
\* earlier computation of the same reference has failed and left no entry
C12_Witness ==
    \E e \in 2..MaxEmbeddings :
        /\ embedding[e].state = "running" /\ embedding[e].ref = "John 3:16"
        /\ embedding[1] = [state |-> "done", ref |-> "John 3:16", value |-> <<>>]
        /\ \E c, d \in 1..NumCalls :
              /\ c # d
              /\ calls[c].pc = "verse" /\ calls[c].wait = e
              /\ calls[d].pc = "verse" /\ calls[d].wait = e

\* C13: with an extractor that answers a text always the same way, two
\* calls that have returned for the same transcript and options, with the
\* same candidates from the searches, have returned the same list, whatever
\* the other calls did before and between them.
C13_Determinism ==
    extractor # "flaky" =>
        \A c, d \in 1..NumCalls :
            (/\ calls[c].pc = "done" /\ calls[d].pc = "done"
             /\ calls[c].transcript = calls[d].transcript
             /\ calls[c].options = calls[d].options
             /\ calls[c].hits = calls[d].hits) =>
                calls[c].result = calls[d].result

\* two calls have returned the same non-empty list for the same input, the
\* first with a vector it awaited, the second with the cached vector,
\* after a call with other candidates
C13_Witness ==
    /\ extractor = "works"
    /\ calls[1].pc = "done" /\ calls[2].pc = "done" /\ calls[3].pc = "done"
    /\ calls[1].hits # calls[2].hits
    /\ calls[2].transcript = calls[3].transcript
    /\ calls[2].options = calls[3].options
    /\ calls[2].hits = calls[3].hits
    /\ calls[2].embeddingEnabled
    /\ calls[3].result # <<>>
    /\ calls[3].result = calls[2].result
    /\ Cardinality({e \in 1..MaxEmbeddings : embedding[e].state = "done"}) = 2

\* C17: an entry of the verse token cache or of the verse embedding cache
\* is never changed or removed; the token data cached for a reference are
\* those of its text, and every vector a call has read for a reference is
\* the cached vector of that reference.
C17_CacheEntriesKept ==
    /\ [][\A r \in VerseRefs :
             /\ verseTokenCache[r].cached => verseTokenCache'[r] = verseTokenCache[r]
             /\ verseEmbeddingCache[r] # <<>> =>
                    verseEmbeddingCache'[r] = verseEmbeddingCache[r]]_vars
    /\ [](\A r \in VerseRefs :
             /\ verseTokenCache[r].cached => verseTokenCache[r] = CorpusTokenData[r]
             /\ \A c \in 1..NumCalls :
                   calls[c].verseEmbeddings[r] # <<>> =>
                       calls[c].verseEmbeddings[r] = verseEmbeddingCache[r])

\* two references are cached, John 3:16 was computed once, and two calls
\* have read its vector
C17_Witness ==
    /\ verseEmbeddingCache["John 3:16"] # <<>>
    /\ verseEmbeddingCache["John 11:35"] # <<>>
    /\ verseTokenCache["John 8:58"].cached
    /\ Cardinality({e \in 1..MaxEmbeddings : embedding[e].ref = "John 3:16"}) = 1
    /\ \E c, d \in 1..NumCalls :
          /\ c # d
          /\ calls[c].pc = "done" /\ calls[c].verseEmbeddings["John 3:16"] # <<>>
          /\ calls[d].pc = "done" /\ calls[d].verseEmbeddings["John 3:16"] # <<>>

-----------------------------------------------------------------------------
(* Further claims about the scores of analyzeTranscriptChunkOffline.       *)

RatEq(a, b) == ~RatLess(a, b) /\ ~RatLess(b, a)

\* the candidates of the finished call that were scored (line 391)
ScoredHits == {r \in SetOf(an.hits) : Len(CorpusTokenData[r].tokens) # 0}

\* C21: in a finished call, a (window, verse) pair for which no semantic
\* score can be computed (embeddings are off, or the window or the verse
\* has no vector) is scored with its lexical score alone.
C21_LexicalAloneWithoutSemantic ==
    an.pc = "done" =>
        \A i \in 1..Len(an.windows), r \in ScoredHits :
            (\/ ~an.embeddingEnabled
             \/ an.windows[i].embedding = <<>>
             \/ verseEmbeddingCache[r] = <<>>) =>
                RatEq(CallScore(i, r).score, CallScore(i, r).lexicalScore)

-----------------------------------------------------------------------------
(* buildTextWindows (lines 94-148) on texts of one or two sentences.       *)

\* the words of the texts: w00 .. w99, every third one "the" when the text
\* is written with stop words
TextWord(i, stops) ==
    LET digit == <<"0", "1", "2", "3", "4", "5", "6", "7", "8", "9">>
    IN IF stops /\ i % 3 = 2 THEN <<"t", "h", "e">>
       ELSE <<"w", digit[((i \div 10) % 10) + 1], digit[(i % 10) + 1]>>

\* a sentence of len words that repeats after period words
RECURSIVE TextSentence(_, _, _, _)
TextSentence(len, period, stops, j) ==
    IF j > len THEN <<>>
    ELSE (IF j = 1 THEN <<>> ELSE <<" ">>) \o TextWord(j % period, stops)
             \o TextSentence(len, period, stops, j + 1)

\* the texts buildTextWindows is called with: a first sentence of up to
\* LongSentence words, a second one of up to MidSentence words, with or
\* without white space around the text and a final punctuation mark
WindowTexts ==
    LET shapes == [first : {0, 3, 5, MidSentence, LongSentence},
                   second : {0, 3, 5, MidSentence}, period : {6, 100},
                   stops : BOOLEAN, pad : BOOLEAN, mark : {"", ".", "?"}]
        kept == {p \in shapes :
                    /\ p.first = LongSentence =>
                          p.period = 100 /\ ~p.stops /\ ~p.pad /\ p.mark = "."
                    /\ p.first = 0 => p.second = 0 /\ p.period = 6 /\ ~p.stops}
        Text(p) ==
            (IF p.pad THEN <<" ">> ELSE <<>>)
                \o TextSentence(p.first, p.period, p.stops, 1)
                \o (IF p.second = 0 THEN <<>>
                    ELSE <<"!", " ">> \o TextSentence(p.second, p.period, p.stops, 4))
                \o (IF p.mark = "" THEN <<>> ELSE <<p.mark>>)
                \o (IF p.pad THEN <<" ", " ">> ELSE <<>>)
    IN {Text(p) : p \in kept}

\* the call buildTextWindows(text), from the call to its result
BuildTextWindows ==
    /\ tw.pc = "idle"
    /\ tw' = [tw EXCEPT !.pc = "done", !.windows = buildTextWindows(tw.text)]
    /\ UNCHANGED <<idxVars, libVars, cue, apiVars, scoreVars, concVars, ov, gv, cc, gl>>

InitWindows ==
    /\ tw \in [pc : {"idle"}, text : WindowTexts, windows : {<<>>}]
    /\ IdxIdle /\ LibIdle /\ CueIdle /\ ApiIdle /\ ScoreIdle /\ ConcIdle /\ OvIdle /\ GvIdle
    /\ CcIdle /\ GlIdle

SpecWindows == InitWindows /\ [][BuildTextWindows]_vars

\* C22: when buildTextWindows returns at least one window, the first window
\* is the whole trimmed text.
C22_FullTextFirst ==
    (tw.pc = "done" /\ tw.windows # <<>>) =>
        /\ tw.windows[1].text = Trim(tw.text)
        /\ tw.windows[1].tokens = tokenize(tw.text)

\* the cap has cut the windows of a text of two sentences down to
\* DEFAULT_MAX_WINDOWS, the whole text first
C22_Witness ==
    /\ tw.pc = "done"
    /\ Len(tw.windows) = DEFAULT_MAX_WINDOWS
    /\ Len(tw.windows[1].tokens) > LongSentence

-----------------------------------------------------------------------------
(* Claims about the confidence and the phrase of a match.                  *)

\* the windows of the finished call that pass a gate for verse r
Gated(r) == {i \in 1..Len(an.windows) : CallScore(i, r).gate}

\* the first of the gated windows of verse r with the highest score
FirstBest(r) ==
    CHOOSE i \in Gated(r) :
        /\ \A j \in Gated(r) : ~RatLess(CallScore(i, r).score, CallScore(j, r).score)
        /\ \A j \in Gated(r) : j < i => RatLess(CallScore(j, r).score, CallScore(i, r).score)

\* C23: the confidence of a returned match is the highest score among the
\* windows that pass a gate for its verse, times 0.85 when the verse has
\* fewer than 6 tokens, and then at most 0.85; matchedPhrase is the text of
\* the first window with that score.  (A match no window of which passes a
\* gate has confidence 0.)
C23_BestWindowConfidence ==
    an.pc = "done" =>
        \A m \in 1..Len(an.result) :
            LET r == an.result[m].reference
                short == Len(CorpusTokenData[r].tokens) < 6
            IN IF Gated(r) = {} THEN an.result[m].confidence = <<0, 1>>
               ELSE /\ RatEq(an.result[m].confidence,
                             RatMul(CallScore(FirstBest(r), r).score,
                                    IF short THEN <<85, 100>> ELSE <<1, 1>>))
                    /\ short => ~RatLess(<<85, 100>>, an.result[m].confidence)
                    /\ an.result[m].matchedPhrase = an.windows[FirstBest(r)].text

\* a short verse was returned with a gated score times 0.85, from the second
\* window, which scored higher than another gated window
C23_Witness ==
    /\ an.pc = "done"
    /\ \E m \in 1..Len(an.result) :
          LET r == an.result[m].reference
          IN /\ Len(CorpusTokenData[r].tokens) < 6
             /\ Cardinality(Gated(r)) > 1
             /\ FirstBest(r) > 1
             /\ RatLess(<<0, 1>>, an.result[m].confidence)
             /\ RatLess(an.result[m].confidence, CallScore(FirstBest(r), r).score)

-----------------------------------------------------------------------------
(* collectCandidates (lines 295-333): the searches it issues one after the  *)
(* other and the candidates it merges.  A verse reference is a number.      *)

DEFAULT_CANDIDATE_LIMIT == 120

\* the limits collectCandidates is called with (line 380)
CandidateLimits == {8, 40, DEFAULT_CANDIDATE_LIMIT}

\* the transcripts whose windows collectCandidates is called with
CollectTranscripts ==
    {<<"G", "o", "d", " ", "l", "o", "v", "e", "d", " ", "t", "h", "e", " ", "w", "o", "r", "l", "d", " ", "a", "n", "d", " ", "g", "i", "v", "e", "s", " ", "h", "i", "s", " ", "s", "o", "n", ".">>,
     <<"G", "o", "d", " ", "l", "o", "v", "e", "d", " ", "t", "h", "e", " ", "w", "o", "r", "l", "d", " ", "a", "n", "d", " ", "g", "i", "v", "e", "s", " ", "h", "i", "s", " ", "s", "o", "n", ".", " ", "F", "a", "i", "t", "h", " ", "h", "o", "p", "e", " ", "a", "n", "d", " ", "c", "h", "a", "r", "i", "t", "y", " ", "a", "b", "i", "d", "e", ".">>,
     <<"F", "a", "i", "t", "h", ",", "h", "o", "p", "e", ",", "c", "h", "a", "r", "i", "t", "y", " ", "a", "b", "i", "d", "e", ".", " ", "G", "o", "d", " ", "l", "o", "v", "e", "d", " ", "t", "h", "e", " ", "w", "o", "r", "l", "d", " ", "a", "n", "d", " ", "g", "i", "v", "e", "s", " ", "h", "i", "s", " ", "s", "o", "n", ".">>}

\* what the index finds for a query: nothing, MaxFound consecutive
\* references, or a list that names references twice
FoundLists ==
    LET Run(a, n) == [i \in 1..n |-> a + i - 1]
    IN {<<>>, Run(1, 3) \o Run(2, 3)}
           \cup {Run(a, MaxFound) : a \in {1, 31, 61, 91}}

\* searchBibleText lines 144-171: at most limit results
searchBibleText(found, limit) ==
    SubSeq(found, 1, IF Len(found) < limit THEN Len(found) ELSE limit)

\* collectCandidates lines 301-302
maxCandidates(limit) == IF limit > 30 THEN limit ELSE 30

perQueryLimit(limit) == IF limit \div 4 > 20 THEN limit \div 4 ELSE 20

\* a mutant of AddResults: every result is added
AddResults_All(candidates, results, max) == candidates \o results

\* collectCandidates lines 324-329: the results not yet among the
\* candidates are added until there are max candidates
RECURSIVE AddResults(_, _, _)
AddResults(candidates, results, max) ==
    IF results = <<>> THEN candidates
    ELSE IF Head(results) \in SetOf(candidates)
    THEN AddResults(candidates, Tail(results), max)
    ELSE IF Len(candidates) + 1 >= max THEN Append(candidates, Head(results))
    ELSE AddResults(Append(candidates, Head(results)), Tail(results), max)

\* collectCandidates lines 321-323 at query number next: the loop ends when
\* the bound is reached or the queries are used up, else the query is issued
\* and awaited
NextQuery(call, next) ==
    IF Len(call.candidates) >= maxCandidates(call.limit) \/ next > Len(call.queries)
    THEN [call EXCEPT !.pc = "done", !.next = next]
    ELSE [call EXCEPT !.pc = "search", !.next = next,
                      !.issued = Append(call.issued,
                          [query |-> call.queries[next].query,
                           limit |-> perQueryLimit(call.limit),
                           suggest |-> call.queries[next].suggest])]

\* collectCandidates lines 299-323, up to its first await
CollectStart ==
    /\ cc.pc = "idle"
    /\ cc' = NextQuery(cc, 1)
    /\ UNCHANGED <<idxVars, libVars, cue, apiVars, scoreVars, concVars, ov, gv, tw, gl>>

\* the search awaited at line 323 returns, its results are merged and the
\* loop goes on
SearchReturns(found) ==
    /\ cc.pc = "search"
    /\ cc' = NextQuery([cc EXCEPT !.candidates =
                            AddResults(cc.candidates,
                                       searchBibleText(found, perQueryLimit(cc.limit)),
                                       maxCandidates(cc.limit))],
                       cc.next + 1)
    /\ UNCHANGED <<idxVars, libVars, cue, apiVars, scoreVars, concVars, ov, gv, tw, gl>>

\* the search awaited at line 323 rejects (the index build failed)
SearchRejects ==
    /\ cc.pc = "search"
    /\ cc' = [cc EXCEPT !.pc = "rejected"]
    /\ UNCHANGED <<idxVars, libVars, cue, apiVars, scoreVars, concVars, ov, gv, tw, gl>>

InitCollect ==
    /\ cc \in {[pc |-> "idle", limit |-> limit,
                 queries |-> queries(PreparedTranscripts[t].windows), next |-> 1,
                 candidates |-> <<>>, issued |-> <<>>] :
                    limit \in CandidateLimits, t \in CollectTranscripts}
    /\ IdxIdle /\ LibIdle /\ CueIdle /\ ApiIdle /\ ScoreIdle /\ ConcIdle /\ OvIdle /\ GvIdle
    /\ TwIdle /\ GlIdle

CollectNext ==
    \/ CollectStart
    \/ \E found \in FoundLists : SearchReturns(found)
    \/ SearchRejects

SpecCollect == InitCollect /\ [][CollectNext]_vars

\* C24: the candidates are pairwise distinct and never more than
\* max(30, limit); every query is issued with the result cap
\* max(20, floor(limit / 4)); no query string is issued twice; and while a
\* query is awaited the bound is not yet reached.
C24_CandidatesBounded ==
    LET max == IF cc.limit > 30 THEN cc.limit ELSE 30
        cap == IF cc.limit \div 4 > 20 THEN cc.limit \div 4 ELSE 20
    IN /\ Len(cc.candidates) <= max
       /\ \A i, j \in 1..Len(cc.candidates) : i # j => cc.candidates[i] # cc.candidates[j]
       /\ \A i \in 1..Len(cc.issued) : cc.issued[i].limit = cap
       /\ \A i, j \in 1..Len(cc.issued) : i # j => cc.issued[i].query # cc.issued[j].query
       /\ cc.pc = "search" => Len(cc.candidates) < max

\* collectCandidates has returned the default 120 candidates and left
\* queries unissued
C24_Witness ==
    /\ cc.pc = "done"
    /\ cc.limit = DEFAULT_CANDIDATE_LIMIT
    /\ Len(cc.candidates) = DEFAULT_CANDIDATE_LIMIT
    /\ Len(cc.issued) < Len(cc.queries)


-----------------------------------------------------------------------------
(* Overlapping go-lives: goLiveReference and its auto-clear timer          *)
(* (smartVersesApiService.ts).  Calls are numbered in the order in which    *)
(* they enter goLiveReference; the timer a call sets carries the number of  *)
(* the call, and so does the verse it writes to the output files.           *)

\* window.clearTimeout line 31: a timer that has not fired is cancelled, any
\* other handle is ignored
ClearTimeout(timers, handle) ==
    IF handle # 0 /\ timers[handle] = "pending"
    THEN [timers EXCEPT ![handle] = "cancelled"]
    ELSE timers

\* the call has written its verse to the output files
Wrote(c) == gl.calls[c].pc \in {"written", "done"}

\* goLiveReference lines 28-36: the pending auto-clear is cancelled and the
\* handle forgotten, then the first write is awaited; clear is
\* settings.clearTextAfterLive with a base path and a positive delay
GoLiveReferenceStart(c, clear) ==
    /\ gl.calls[c].pc = "idle"
    /\ \A d \in 1..(c - 1) : gl.calls[d].pc # "idle"
    /\ gl' = [gl EXCEPT !.calls[c] = [pc |-> "writing", clear |-> clear],
                        !.timers = ClearTimeout(gl.timers, gl.handle),
                        !.handle = 0]
    /\ UNCHANGED <<idxVars, libVars, cue, apiVars, scoreVars, concVars, ov, gv, tw, cc>>

\* goLiveReference lines 35-49: the files are written, or a write throws and
\* the call ends (goLiveScriptureReference lines 121-124)
GoLiveWrites(c, ok) ==
    /\ gl.calls[c].pc = "writing"
    /\ IF ok
       THEN gl' = [gl EXCEPT !.calls[c].pc = "written", !.output = c]
       ELSE gl' = [gl EXCEPT !.calls[c].pc = "failed"]
    /\ UNCHANGED <<idxVars, libVars, cue, apiVars, scoreVars, concVars, ov, gv, tw, cc>>

\* goLiveReference lines 51-87: the awaits are over; the auto-clear timer is
\* set when the settings ask for it and its handle replaces the stored one
GoLiveSchedules(c) ==
    /\ gl.calls[c].pc = "written"
    /\ IF gl.calls[c].clear
       THEN gl' = [gl EXCEPT !.calls[c].pc = "done",
                             !.timers[c] = "pending",
                             !.handle = c]
       ELSE gl' = [gl EXCEPT !.calls[c].pc = "done"]
    /\ UNCHANGED <<idxVars, libVars, cue, apiVars, scoreVars, concVars, ov, gv, tw, cc>>

\* goLiveReference lines 65-73: the timer fires and its callback awaits the
\* write of the empty text
AutoClearFires(t) ==
    /\ gl.timers[t] = "pending"
    /\ gl' = [gl EXCEPT !.timers[t] = "clearing"]
    /\ UNCHANGED <<idxVars, libVars, cue, apiVars, scoreVars, concVars, ov, gv, tw, cc>>

\* goLiveReference lines 67-85: the files are emptied and the callback's
\* finally block sets apiAutoClearTimeout to null
AutoClearSettles(t) ==
    /\ gl.timers[t] = "clearing"
    /\ gl' = [gl EXCEPT !.timers[t] = "fired", !.output = 0, !.handle = 0]
    /\ UNCHANGED <<idxVars, libVars, cue, apiVars, scoreVars, concVars, ov, gv, tw, cc>>

InitGoLive ==
    /\ GlIdle
    /\ IdxIdle /\ LibIdle /\ CueIdle /\ ApiIdle /\ ScoreIdle /\ ConcIdle /\ OvIdle /\ GvIdle
    /\ TwIdle /\ CcIdle

GoLiveNext ==
    \/ \E c \in 1..NumLive, clear \in BOOLEAN : GoLiveReferenceStart(c, clear)
    \/ \E c \in 1..NumLive, ok \in BOOLEAN : GoLiveWrites(c, ok)
    \/ \E c \in 1..NumLive : GoLiveSchedules(c)
    \/ \E t \in 1..NumLive : AutoClearFires(t)
    \/ \E t \in 1..NumLive : AutoClearSettles(t)

SpecGoLive == InitGoLive /\ [][GoLiveNext]_vars

\* C30: under any interleaving of go-lives at most one auto-clear timer is
\* pending; a timer set by an earlier go-live does not fire once a later
\* go-live has written its verse; and the verse in the output files is
\* cleared only by the timer of the go-live that wrote it.
C30_OnlyOwnTimerClears ==
    /\ [](Cardinality({t \in 1..NumLive : gl.timers[t] = "pending"}) <= 1)
    /\ [][/\ \A t \in 1..NumLive :
                (gl.timers[t] = "pending" /\ gl'.timers[t] = "clearing") =>
                    \A c \in (t + 1)..NumLive : ~Wrote(c)
          /\ (gl.output # 0 /\ gl'.output = 0) =>
                (gl.timers[gl.output] = "clearing" /\ gl'.timers[gl.output] = "fired")]_vars

====
